---- MODULE Spec2Model ----
(***************************************************************************)
(* Phoenix pipeline: the incremental-processing core (orchestrator, state  *)
(* store, rate limiter, retry policy) as state machines.                   *)
(***************************************************************************)
EXTENDS Integers, Sequences, FiniteSets, TLC

\* ------------------------------------------------------------------ bounds
MaxBlock == 2
MaxBatch == 2
MaxRuns == 2
\* longest batch of sample payloads given to a single run
MaxSample == 3

\* ------------------------------------------------------------ data model
\* Token addresses, by symbol. In ascending order of address: UNI (0x1f98..),
\* USDC (0xa0b8..), WETH (0xc02a..), USDT (0xdac1..).
AddressOrder == <<"UNI", "USDC", "WETH", "USDT">>

AddressRank(t) == CHOOSE i \in DOMAIN AddressOrder : AddressOrder[i] = t

\* A raw swap payload of the subgraph. Its numeric fields arrive as text: <<n>>
\* is a field that parses to n, <<>> a field that is missing or does not parse;
\* a missing txHash is <<>>, a missing token address "".
Payload(h, b, t0, t1, a0, a1) ==
    [txHash |-> h, blockNumber |-> b, token0 |-> t0, token1 |-> t1,
     amount0 |-> a0, amount1 |-> a1]

\* The chain holds one swap per block: its transaction hash, its block and
\* the pool's token0/token1 (WETH-USDC in even blocks, UNI-WETH in odd ones).
TxHashOf(b) == <<"0x", b>>

PairOf(b) == IF b % 2 = 0 THEN <<"WETH", "USDC">> ELSE <<"UNI", "WETH">>

\* raw amounts: WETH and UNI carry 2 decimals here, USDC and USDT 1; the swap
\* of block b sells b+1 WETH for USDC, or 200 (b+1) UNI for WETH
AmountsOf(b) ==
    IF b % 2 = 0 THEN <<100 * (b + 1), -20000 * (b + 1)>>
    ELSE <<20000 * (b + 1), -100 * (b + 1)>>

Swap(b) ==
    Payload(TxHashOf(b), <<b>>, PairOf(b)[1], PairOf(b)[2],
            <<AmountsOf(b)[1]>>, <<AmountsOf(b)[2]>>)

\* a raw swap payload: a swap of the chain, or a payload whose blockNumber
\* is not a non-negative integer (-1), which the normalizer rejects
RawSwaps == {Swap(b) : b \in -1..MaxBlock}

RECURSIVE SeqsUpTo(_, _)
SeqsUpTo(S, n) ==
    IF n = 0 THEN {<<>>}
    ELSE LET shorter == SeqsUpTo(S, n - 1)
         IN shorter \cup {Append(s, x) : s \in {t \in shorter : Len(t) = n - 1}, x \in S}

Batches == SeqsUpTo(RawSwaps, MaxBatch)

Range(s) == {s[i] : i \in DOMAIN s}

\* the subsequence of s at the indices i with Keep(s, i)
RECURSIVE SelectSeqIdx(_, _, _)
SelectSeqIdx(s, Keep(_, _), i) ==
    IF i > Len(s) THEN <<>>
    ELSE IF Keep(s, i) THEN <<s[i]>> \o SelectSeqIdx(s, Keep, i + 1)
         ELSE SelectSeqIdx(s, Keep, i + 1)

SetMax(S) == CHOOSE x \in S : \A y \in S : y <= x

\* ------------------------------------------------------------- state file
NoState == [kind |-> "absent", block |-> 0]
CorruptState == [kind |-> "corrupt", block |-> 0]
ValidState(b) == [kind |-> "valid", block |-> b]
StateFiles == {NoState, CorruptState} \cup {ValidState(b) : b \in 0..MaxBlock}

\* read_state() parses state.json when the file exists
Readable(file) == file.kind # "corrupt"

\* read_state(): the persisted last_processed_block, 0 when there is none
ReadState(file) == IF file.kind = "valid" THEN file.block ELSE 0

\* write_state(block=...)
WriteState(block) == ValidState(block)

\* -------------------------------------------------------------- pipeline
\* the steps of one run, in the order main.py performs them
StageOrderCheckpointFirst ==
    <<"Idle", "Loading", "Fetching", "Filtering", "TokenCollection",
      "PriceEnrichment", "Aggregating", "CheckpointUpdate", "Writing", "Done">>

StageOrder ==
    <<"Idle", "Loading", "Fetching", "Filtering", "TokenCollection",
      "PriceEnrichment", "Aggregating", "Writing", "CheckpointUpdate", "Done">>

Stages == Range(StageOrder) \cup {"Aborted"}

StageIndex(s) == CHOOSE i \in DOMAIN StageOrder : StageOrder[i] = s

\* a stage that hands over to itself
SameStage(s) == s

NextStage(s) == StageOrder[StageIndex(s) + 1]

\* normalizer: malformed payloads are dropped, duplicates of a txHash collapse
\* to the first occurrence
RejectsNegative(r) ==
    /\ r.txHash # <<>>
    /\ r.blockNumber # <<>> /\ r.blockNumber[1] >= 0
    /\ r.token0 # "" /\ r.token1 # ""
    /\ r.amount0 # <<>> /\ r.amount0[1] >= 0
    /\ r.amount1 # <<>> /\ r.amount1[1] >= 0

WellFormed(r) ==
    /\ r.txHash # <<>>
    /\ r.blockNumber # <<>> /\ r.blockNumber[1] >= 0
    /\ r.token0 # "" /\ r.token1 # ""
    /\ r.amount0 # <<>>
    /\ r.amount1 # <<>>

KeepLastOccurrence(s, i) ==
    /\ WellFormed(s[i])
    /\ \A j \in (i + 1)..Len(s) : ~(WellFormed(s[j]) /\ s[j].txHash = s[i].txHash)

KeepNormalized(s, i) ==
    /\ WellFormed(s[i])
    /\ \A j \in 1..(i - 1) : ~(WellFormed(s[j]) /\ s[j].txHash = s[i].txHash)

\* the SwapRecord of a well-formed payload: its numeric fields parsed
Canonical(r) ==
    [txHash |-> r.txHash, blockNumber |-> r.blockNumber[1],
     token0 |-> r.token0, token1 |-> r.token1,
     amount0 |-> r.amount0[1], amount1 |-> r.amount1[1]]

Normalize(batch) ==
    LET kept == SelectSeqIdx(batch, KeepNormalized, 1)
    IN [i \in DOMAIN kept |-> Canonical(kept[i])]

RejectedCount(batch) == Cardinality({i \in DOMAIN batch : ~WellFormed(batch[i])})

\* "Exit if no swaps found" / "Exit if no new swaps"
NeverExit(batch) == FALSE

NothingToProcess(batch) == batch = <<>>

\* "Extract latest block number from swaps"
EarliestBlock(batch) ==
    IF batch = <<>> THEN 0
    ELSE CHOOSE b \in {r.blockNumber : r \in Range(batch)} :
            \A r \in Range(batch) : b <= r.blockNumber

LatestBlock(batch) ==
    IF batch = <<>> THEN 0 ELSE SetMax({r.blockNumber : r \in Range(batch)})

\* filter_swaps_by_block(swaps, last_processed_block): drop block <= last
FilterSwapsFromBlock(batch, last) ==
    LET Keep(s, i) == s[i].blockNumber >= last
    IN SelectSeqIdx(batch, Keep, 1)

FilterSwapsByBlock(batch, last) ==
    LET Keep(s, i) == s[i].blockNumber > last
    IN SelectSeqIdx(batch, Keep, 1)

\* "Extract unique token addresses from swaps"
CollectTokens(batch) == UNION {{r.token0, r.token1} : r \in Range(batch)}

\* ------------------------------------------------------------- transform
\* the stablecoin list
IsStable(t) == t \in {"USDC", "USDT"}

\* the USD price CoinGecko quotes for a token
UsdQuote(t) ==
    CASE t = "WETH" -> 2000
      [] t = "UNI" -> 10
      [] OTHER -> 1

\* fetch_prices(tokens): the quotes of the tokens the lookup resolves
FetchPrices(resolved) == [t \in resolved |-> UsdQuote(t)]

\* TOKEN_DECIMALS.get(token_address, 18), scaled down: 1 for the 6 of USDC and
\* USDT, 2 for the 18 of WETH and of any token not listed
TokenDecimals(t) == IF t \in {"USDC", "USDT"} THEN 1 ELSE 2

\* amount_normalized = amount_raw / (10 ** decimals); the raw amounts of the
\* model are whole tokens, for which the quotient is exact
NormalizeAmount(raw, t) == raw \div (10 ^ TokenDecimals(t))

Abs(x) == IF x < 0 THEN 0 - x ELSE x

\* stablecoin-aware volume
SumUnlessBothStable(stable0, stable1, amount0, price0, amount1, price1) ==
    IF stable0 /\ stable1 THEN Abs(amount0 * price0)
    ELSE Abs(amount0 * price0) + Abs(amount1 * price1)

UsdVolume(stable0, stable1, amount0, price0, amount1, price1) ==
    IF stable0 /\ stable1 THEN Abs(amount0 * price0)
    ELSE IF stable0 THEN Abs(amount0 * price0)
    ELSE IF stable1 THEN Abs(amount1 * price1)
    ELSE Abs(amount0 * price0) + Abs(amount1 * price1)

\* "Create pair identifiers (token0-token1)"
PairKey(t0, t1) == <<t0, t1>>

\* both prices of the swap were resolved
Resolved(r, priceMap) ==
    r.token0 \in DOMAIN priceMap /\ r.token1 \in DOMAIN priceMap

\* the usdVolume of a swap: <<v>>, or <<>> (none) when a price is missing
UsdVolumeOf(r, priceMap) ==
    IF Resolved(r, priceMap)
    THEN <<UsdVolume(IsStable(r.token0), IsStable(r.token1),
                     NormalizeAmount(r.amount0, r.token0), priceMap[r.token0],
                     NormalizeAmount(r.amount1, r.token1), priceMap[r.token1])>>
    ELSE <<>>

\* the enriched record of a swap with both prices resolved
EnrichSwap(r, priceMap) ==
    [txHash |-> r.txHash, blockNumber |-> r.blockNumber,
     token0 |-> r.token0, token1 |-> r.token1,
     amount0 |-> r.amount0, amount1 |-> r.amount1,
     priceUSD0 |-> priceMap[r.token0], priceUSD1 |-> priceMap[r.token1],
     usdVolume |-> UsdVolumeOf(r, priceMap)[1],
     pair |-> PairKey(r.token0, r.token1)]

\* a record of volume 0 for a swap with a missing price
ZeroVolumeSwap(r) ==
    [txHash |-> r.txHash, blockNumber |-> r.blockNumber,
     token0 |-> r.token0, token1 |-> r.token1,
     amount0 |-> r.amount0, amount1 |-> r.amount1,
     priceUSD0 |-> 0, priceUSD1 |-> 0, usdVolume |-> 0,
     pair |-> PairKey(r.token0, r.token1)]

\* enrich_swaps(new_swaps, prices): "Skip swaps with missing prices"
EnrichSwapsZeroForMissing(batch, priceMap) ==
    [i \in DOMAIN batch |->
        IF Resolved(batch[i], priceMap) THEN EnrichSwap(batch[i], priceMap)
        ELSE ZeroVolumeSwap(batch[i])]

EnrichSwaps(batch, priceMap) ==
    LET Keep(s, i) == UsdVolumeOf(s[i], priceMap) # <<>>
        kept == SelectSeqIdx(batch, Keep, 1)
    IN [i \in DOMAIN kept |-> EnrichSwap(kept[i], priceMap)]

\* the tokens of the batch without a price
SkippedTokenCount(batch, priceMap) ==
    Cardinality(CollectTokens(batch) \ DOMAIN priceMap)

\* the skipped count of the run statistics: the swaps left out for a missing
\* price
SkippedCount(batch, priceMap) ==
    Cardinality({i \in DOMAIN batch : ~Resolved(batch[i], priceMap)})

RECURSIVE Gcd(_, _)
Gcd(a, b) == IF b = 0 THEN a ELSE Gcd(b, a % b)

\* the quotient a / b of a non-negative a by a positive b, as the fraction
\* <<numerator, denominator>> in lowest terms
Divide(a, b) == <<a \div Gcd(a, b), b \div Gcd(a, b)>>

RECURSIVE TotalUsd(_, _)
\* the sum of usdVolume over the rows of pair k
TotalUsd(rows, k) ==
    IF rows = <<>> THEN 0
    ELSE (IF Head(rows).pair = k THEN Head(rows).usdVolume ELSE 0)
         + TotalUsd(Tail(rows), k)

\* "Calculate: count, total volume, average volume" of one trading pair
SummaryRowOverAll(rows, k) ==
    [pair |-> k,
     count |-> Len(rows),
     totalUSD |-> TotalUsd(rows, k),
     avgUSD |-> Divide(TotalUsd(rows, k), Len(rows))]

SummaryRow(rows, k) ==
    [pair |-> k,
     count |-> Cardinality({i \in DOMAIN rows : rows[i].pair = k}),
     totalUSD |-> TotalUsd(rows, k),
     avgUSD |-> Divide(TotalUsd(rows, k),
                       Cardinality({i \in DOMAIN rows : rows[i].pair = k}))]

\* "token0-token1" strings compare as the pairs of their addresses
PairKeyLess(k1, k2) ==
    \/ AddressRank(k1[1]) < AddressRank(k2[1])
    \/ k1[1] = k2[1] /\ AddressRank(k1[2]) < AddressRank(k2[2])

\* "Sort by total volume (highest first)"
LowestFirst(r1, r2) == r1.totalUSD < r2.totalUSD

HighestFirst(r1, r2) == r1.totalUSD > r2.totalUSD

\* rows of equal total volume keep the order they are met in
NoTieBreak(r1, r2) == FALSE

\* rows of equal total volume: by pair identifier, ascending
TieBreak(r1, r2) == r1.totalUSD = r2.totalUSD /\ PairKeyLess(r1.pair, r2.pair)

\* the order of the output: total volume descending, then the tie-break
RowBefore(r1, r2) == HighestFirst(r1, r2) \/ TieBreak(r1, r2)

RECURSIVE PairsInOrder(_)
\* "Group by trading pair": the pair identifiers of the rows, each once, in
\* the order of their first appearance
PairsInOrder(rows) ==
    IF rows = <<>> THEN <<>>
    ELSE <<Head(rows).pair>>
         \o SelectSeq(PairsInOrder(Tail(rows)), LAMBDA k : k # Head(rows).pair)

RECURSIVE InsertRow(_, _)
\* the row r put into the sorted rows s, behind every row it does not precede
InsertRow(s, r) ==
    IF s = <<>> THEN <<r>>
    ELSE IF RowBefore(r, Head(s)) THEN <<r>> \o s
    ELSE <<Head(s)>> \o InsertRow(Tail(s), r)

RECURSIVE SortRows(_)
\* a stable sort: rows neither of which precedes the other keep their order
SortRows(rows) ==
    IF rows = <<>> THEN <<>>
    ELSE InsertRow(SortRows(SubSeq(rows, 1, Len(rows) - 1)), rows[Len(rows)])

\* the summary rows in the order their pairs first appear
GroupRows(rows) ==
    [i \in DOMAIN PairsInOrder(rows) |-> SummaryRow(rows, PairsInOrder(rows)[i])]

\* summarize(enriched): "Group by trading pair", one row per pair, sorted
Summarize(rows) == SortRows(GroupRows(rows))

\* ---------------------------------------------------------- rate limiter
\* RateLimiter(max_requests, window_seconds), scaled down from (10, 60)
MaxRequests == 2
WindowSeconds == 3
\* calls observed and the horizon of the clock, in seconds
MaxCalls == 4
MaxClock == 5
\* how long time.sleep may overrun
MaxOversleep == 1
\* callers that may be inside acquire() at the same time: the class holds no
\* lock
MaxCallers == 3

\* while self.requests and self.requests[0] < now - self.window_seconds
Expired(reqs, now) == reqs # <<>> /\ reqs[1] < now - WindowSeconds

\* if len(self.requests) >= self.max_requests
AboveLimit(reqs) == Len(reqs) > MaxRequests

AtLimit(reqs) == Len(reqs) >= MaxRequests

\* wait_time = (self.requests[0] + self.window_seconds) - now
WaitTime(reqs, now) == (reqs[1] + WindowSeconds) - now

\* ----------------------------------------------------------- retry policy
\* @retry(stop=stop_after_attempt(3), wait=wait_exponential_jitter(initial=2, max=10))
MaxAttempts == 3
InitialDelay == 2
MaxDelay == 10
\* the jitter wait_exponential_jitter adds when none is given: up to 1 second
MaxJitter == 1

\* what the wrapped call does: it returns, or raises httpx.RequestError
\* (connection errors, timeouts), httpx.HTTPStatusError (raise_for_status on a
\* 5xx or a 4xx response) or a ValueError (a body that is not JSON)
Outcomes == {"ok", "RequestError", "HTTP5xx", "HTTP4xx", "ValueError"}

\* retry_if_exception_type((httpx.RequestError, httpx.HTTPStatusError))
Retryable(e) == e \in {"RequestError", "HTTP5xx", "HTTP4xx"}

\* delays are counted in milliseconds
Ms(seconds) == 1000 * seconds

\* stop_after_attempt(3): limit is its max_attempt_number
StopAfterOneMore(limit, attempt) == attempt > limit

StopAfterAttempt(limit, attempt) == attempt >= limit

\* what reaches the caller when tenacity stops on a failed attempt: the
\* decorator has no reraise=True, so a failure the predicate would retry ends
\* in tenacity.RetryError (its last_attempt holding the failure), and a
\* failure the predicate does not match is raised as it is
RaisedFirstError(outcomes) ==
    LET e == outcomes[Len(outcomes)]
    IN IF Retryable(e) THEN [raised |-> "RetryError", cause |-> outcomes[1]]
       ELSE [raised |-> e, cause |-> "none"]

RaisedError(outcomes) ==
    LET e == outcomes[Len(outcomes)]
    IN IF Retryable(e) THEN [raised |-> "RetryError", cause |-> e]
       ELSE [raised |-> e, cause |-> "none"]

Min(a, b) == IF a <= b THEN a ELSE b

\* attempt numbers for which the wait is examined
MaxAttemptIndex == 5

\* wait_exponential_jitter(initial, max), called with the attempt number and
\* with the jitter it draws: min(initial * 2^(attempt_number - 1) + jitter, max)
WaitJitterAfterCap(initial, max, attempt, jitter) ==
    Min(initial * 2^(attempt - 1), max) + jitter

WaitExponentialJitter(initial, max, attempt, jitter) ==
    Min(initial * 2^(attempt - 1) + jitter, max)

\* the jitter drawn from random.uniform(0, 1) seconds: its two ends
JitterDraws == {0, Ms(MaxJitter)}

\* the decorator as DESIGN_DECISIONS writes it
CodeRetry ==
    [attempts |-> MaxAttempts, initial |-> Ms(InitialDelay), max |-> Ms(MaxDelay)]

\* the decorators examined: the number of attempts is configured
\* (SUBGRAPH_MAX_RETRIES, COINGECKO_MAX_RETRIES), and initial and max are
\* taken below, at and above tenacity's jitter of one second
RetryConfigs ==
    {[attempts |-> a, initial |-> i, max |-> m] :
        a \in {1, MaxAttempts, MaxAttemptIndex},
        i \in {500, 1000, Ms(InitialDelay)},
        m \in {3000, Ms(MaxDelay)}}

VARIABLES
    pc,           \* orchestrator state
    run,          \* number of the current run
    upstream,     \* what the subgraph holds: the batch a fetch returns
    stateFile,    \* output/state.json
    outSwaps,     \* output/swaps.json: [run, rows], the run that wrote it (0: an
                  \* earlier one) and its number of rows
    outSummary,   \* output/summary.csv: [run, rows]
    checkpoint,   \* last_processed_block as read in Loading
    raw,          \* the fetched batch
    swaps,        \* the normalized batch
    rejected,     \* payloads the normalizer dropped
    latestBlock,  \* latest block number in the fetched swaps
    newSwaps,     \* swaps after the filter by state
    tokens,       \* unique tokens of newSwaps
    prices,       \* the USD prices resolved, by token
    enriched,     \* enriched swaps
    skipped,      \* swaps skipped for a missing price
    summary,      \* pair summary rows, in output order
    errorStage,   \* stage reported with a fatal error
    errorCause,   \* what failed: "none", "config", "state", "fetch", ...
    exited,       \* the process of this run has exited
    \* history of the run, for the properties
    fileAtStart,  \* stateFile when the run started
    outAtStart,   \* <<outSwaps, outSummary>> when the run started
    writes,       \* output writes performed in this run
    cpWrites,     \* checkpoint writes performed in this run
    fetched,      \* the fetch of this run returned
    prevOutcome,  \* how the previous run ended: "none", "Done", "Aborted"
    sameUpstream, \* upstream unchanged since the previous run fetched it
    skippedEarlier, \* txHash of the swaps skipped by earlier runs that updated
                  \* the checkpoint
    \* RateLimiter
    rlClock,      \* time.time(), in seconds
    rlRequests,   \* self.requests: the recorded request timestamps
    rlArrivals,   \* history: when each acquire() was called
    rlGrants,     \* history: when each acquire() returned, <<>> until it does
    rlCalls,      \* the calls inside acquire(): their number, the statement they
                  \* are at and, inside time.sleep, their wake-up time
    \* retry policy around one call
    rtPhase,      \* "ready", "sleeping", "returned" or "raised"
    rtAttempt,    \* attempt_number: invocations of the wrapped call so far
    rtOutcomes,   \* history: the outcome of each invocation
    rtError,      \* the exception that reaches the caller, and for a
                  \* RetryError the exception its last_attempt holds
    rtConfig,     \* the decorator's stop_after_attempt and wait arguments
    rtDelay,      \* the delay about to be slept
    rtSlept,      \* history: the delays slept between attempts
    \* StateStore: one write_state() in steps, and a reader of state.json
    ssPc,         \* writer: "idle", "open" (file opened), "written" (content
                  \* flushed, not yet in place)
    ssTemp,       \* the temporary file next to state.json
    ssBlock,      \* the block of the last write_state(block)
    ssBefore,     \* state.json when that write began
    ssSeen,       \* history: what each read found, [saw, old, new]
    \* dashboard store (zustand)
    stStatus,     \* connectionStatus
    stFake,       \* isFakeData
    stReconnect,  \* reconnectAttempt
    stError,      \* connectionError is set
    stSource,     \* history: the client whose market data came last
    \* ConnectionManager
    cmPhase,      \* "new", "started" (connect() called) or "stopped"
    cmTimerLeft,  \* fallbackTimeout: seconds left, -1 when there is none
    cmSinceStart, \* seconds since connectionAttemptStart
    cmUsingMock,  \* isUsingMock
    cmLastSuccess,\* lastSuccessfulConnection is set
    cmReal,       \* realClient is set
    cmMock,       \* mockClient is set
    cmFallbacks,  \* history: calls of onFallbackToMock
    cmFirstData,  \* history: seconds after connect() of the first real data,
                  \* -1 when there was none
    cmSwitched,   \* history: the manager went back from mock to real data
    cmMockAfter,  \* history: mock data or status forwarded after going back
    \* mock client
    mkStatus,     \* status
    mkPending,    \* the 500 ms timeout of connect() is pending
    mkInterval,   \* the data interval runs
    \* Hyperliquid client
    hlWs,         \* the socket: "none", "connecting", "open", "closing"
                  \* (close() called, its events still to come) or "errored"
                  \* (its error event delivered, its close event to come)
    hlStatus,     \* status
    hlAttempts,   \* reconnectAttempts
    hlReconnectLeft, \* reconnectTimeout: seconds left, -1 when there is none
    hlHeartbeatLeft, \* heartbeatInterval: seconds to the next check, -1: none
    hlSinceMessage,  \* seconds since lastMessageTime
    hlIntentional,   \* intentionallyClosed
    hlDelay,      \* history: the last reconnect delay computed, in ms
    hlDelayAttempts, \* history: reconnectAttempts when it was computed
    hlClosedBy,   \* history: what closed the socket last
    \* calculatePnLWithSide
    pnlArgs,      \* the arguments of the call
    pnlResult,    \* the PnLResult returned, in hundredths
    pnlDone,      \* the call has returned
    \* AgentTable
    atVersion,    \* "memo" (part3-frontend) or "store" (Frontend)
    atSides,      \* agentPositions: the side of every position
    atMarket,     \* marketData of the positions' symbol: <<>> or <<price>>
    atExternal,   \* updates of the store from outside the component so far
    atRenderPending, \* a state update asks for a render
    atMemoDirty,  \* a dependency of the useMemo changed since it ran
    atEffectDirty,\* a dependency of the useEffect changed since the latest render
    atRendered,   \* the latest render: the agentPositions and marketData it read
                  \* and whether its useEffect is to run
    atPhase,      \* "idle", or "rendered": the effects of a render are due
    atPrevSigns,  \* prevSigns
    atFlipped,    \* flippedPositions
    atTimers,     \* positions with a 1 s flip timeout pending
    atMemoSigns,  \* the sign of pnlResult.absolute in positionsWithPnL
    atStorePnl,   \* the pnl of every position in the store, in hundredths
    atUpdates,    \* state updates the component issued since the last
                  \* update from outside, counted up to MaxUpdates
    \* price resolution of one run
    orPc,         \* "fetch" (the subgraph call), "pick", "acquireLookup",
                  \* "lookup", "acquirePrice", "price" or "done"
    orTodo,       \* tokens not yet looked at
    orToken,      \* the token being resolved, "" when there is none
    orAttempt,    \* attempts of the current oracle call so far
    orPriced,     \* tokens with a price
    orSent,       \* history: oracle requests sent
    orLookedUp,   \* history: tokens a fallback lookup was sent for
    orFor,        \* history: what each acquire() was called for
    \* the generic WebSocket client (createWebSocketClient)
    wsPhase,      \* "none" (no client), "new", "started" (connect() called)
                  \* or "stopped" (disconnect() called)
    wsSock,       \* the socket: "none", "connecting", "open", "closing"
                  \* (close() called, its events still to come) or "errored"
                  \* (its error event delivered, its close event to come)
    wsStatus,     \* status
    wsAttempts,   \* reconnectAttempts
    wsMaxAttempts, \* config.maxReconnectAttempts: <<n>>, or <<>> when not given
    wsTimer,      \* reconnectTimeout is pending
    wsIntentional, \* intentionallyClosed
    \* market data
    hlLast,       \* lastPrices of the Hyperliquid client, by symbol
    stMarket,     \* marketData of the store, by symbol
    mdData,       \* history: the data of the last updateMarketData
    mdFrom,       \* history: who made it, "none", "real" or "page"
    mdCalls       \* history: number of updateMarketData calls

runVars == <<checkpoint, raw, swaps, rejected, latestBlock, newSwaps, tokens,
             prices, enriched, skipped, summary, errorStage, errorCause>>
histVars == <<fileAtStart, outAtStart, writes, cpWrites, fetched, prevOutcome,
              sameUpstream, skippedEarlier>>
sinkVars == <<outSwaps, outSummary>>
pipeVars == <<pc, run, upstream, stateFile, sinkVars, runVars, exited, histVars>>
rlVars == <<rlClock, rlRequests, rlArrivals, rlGrants, rlCalls>>
rtVars == <<rtPhase, rtAttempt, rtOutcomes, rtError, rtConfig, rtDelay, rtSlept>>
ssVars == <<ssPc, ssTemp, ssBlock, ssBefore, ssSeen>>
stVars == <<stStatus, stFake, stReconnect, stError, stSource>>
cmVars == <<cmPhase, cmTimerLeft, cmSinceStart, cmUsingMock, cmLastSuccess, cmReal,
            cmMock, cmFallbacks, cmFirstData, cmSwitched, cmMockAfter>>
mkVars == <<mkStatus, mkPending, mkInterval>>
hlVars == <<hlWs, hlStatus, hlAttempts, hlReconnectLeft, hlHeartbeatLeft,
            hlSinceMessage, hlIntentional, hlDelay, hlDelayAttempts, hlClosedBy>>
pnlVars == <<pnlArgs, pnlResult, pnlDone>>
atVars == <<atVersion, atSides, atMarket, atExternal, atRenderPending, atMemoDirty,
            atEffectDirty, atRendered, atPhase, atPrevSigns, atFlipped, atTimers, atMemoSigns,
            atStorePnl, atUpdates>>
orVars == <<orPc, orTodo, orToken, orAttempt, orPriced, orSent, orLookedUp, orFor>>
wsVars == <<wsPhase, wsSock, wsStatus, wsAttempts, wsMaxAttempts, wsTimer, wsIntentional>>
mdVars == <<hlLast, stMarket, mdData, mdFrom, mdCalls>>
feVars == <<stVars, cmVars, mkVars, hlVars, pnlVars, atVars, orVars, wsVars, mdVars>>
vars == <<pipeVars, rlVars, rtVars, ssVars, feVars>>

EarlierOutput == [run |-> 0, rows |-> 1]

FreshRun ==
    /\ checkpoint = 0
    /\ raw = <<>>
    /\ swaps = <<>>
    /\ rejected = 0
    /\ latestBlock = 0
    /\ newSwaps = <<>>
    /\ tokens = {}
    /\ prices = <<>>
    /\ enriched = <<>>
    /\ skipped = 0
    /\ summary = <<>>
    /\ errorStage = "none"
    /\ errorCause = "none"

InitPipeline(batch, file) ==
    /\ pc = "Idle"
    /\ run = 1
    /\ upstream = batch
    /\ stateFile = file
    /\ outSwaps = EarlierOutput
    /\ outSummary = EarlierOutput
    /\ FreshRun
    /\ exited = FALSE
    /\ fileAtStart = file
    /\ outAtStart = <<EarlierOutput, EarlierOutput>>
    /\ writes = 0
    /\ cpWrites = 0
    /\ fetched = FALSE
    /\ prevOutcome = "none"
    /\ sameUpstream = FALSE
    /\ skippedEarlier = {}

\* a new RateLimiter: self.requests = deque()
InitRateLimiter ==
    /\ rlClock = 0
    /\ rlRequests = <<>>
    /\ rlArrivals = <<>>
    /\ rlGrants = <<>>
    /\ rlCalls = {}

\* no write_state() under way, no temporary file
InitStateStore ==
    /\ ssPc = "idle"
    /\ ssTemp = NoState
    /\ ssBlock = 0
    /\ ssBefore = NoState
    /\ ssSeen = <<>>

\* the store as created, a ConnectionManager as constructed, no client yet
\* a JavaScript number: finite ones as a scaled integer v
Finite(v) == [kind |-> "finite", v |-> v]
NaN == [kind |-> "NaN", v |-> 0]
PosInfinity == [kind |-> "Infinity", v |-> 0]
NegInfinity == [kind |-> "-Infinity", v |-> 0]

NumPositions == 2
PositionIds == 1..NumPositions

\* the all-zero PnLResult
ZeroResult == [absolute |-> 0, percentage |-> 0, entryValue |-> 0, currentValue |-> 0]

\* the symbols of the store's market data
StoreSymbols == {"BTC-USD", "ETH-USD"}

\* no data: an absent MarketData
NoData == [has |-> FALSE, symbol |-> "", price |-> 0, bid |-> 0, ask |-> 0]

\* no entry of marketData
NoEntry == [has |-> FALSE, symbol |-> "", price |-> 0, bid |-> 0, ask |-> 0,
            priceDirection |-> "none"]

\* market data not looked at
InitMarket ==
    /\ hlLast = <<>>
    /\ stMarket = <<>>
    /\ mdData = <<>>
    /\ mdFrom = "none"
    /\ mdCalls = 0

\* no generic client created
InitWsClient ==
    /\ wsPhase = "none"
    /\ wsSock = "none"
    /\ wsStatus = "disconnected"
    /\ wsAttempts = 0
    /\ wsMaxAttempts = <<>>
    /\ wsTimer = FALSE
    /\ wsIntentional = FALSE

\* no prices being resolved
InitResolver ==
    /\ orPc = "done"
    /\ orTodo = {}
    /\ orToken = ""
    /\ orAttempt = 0
    /\ orPriced = {}
    /\ orSent = 0
    /\ orLookedUp = {}
    /\ orFor = <<>>

\* no call of calculatePnLWithSide yet, the AgentTable not yet mounted
InitWidgets ==
    /\ pnlArgs = <<>>
    /\ pnlResult = <<>>
    /\ pnlDone = FALSE
    /\ atVersion = "memo"
    /\ atSides = <<>>
    /\ atMarket = <<>>
    /\ atExternal = 0
    /\ atRenderPending = FALSE
    /\ atMemoDirty = FALSE
    /\ atEffectDirty = FALSE
    /\ atRendered = <<>>
    /\ atPhase = "idle"
    /\ atPrevSigns = <<>>
    /\ atFlipped = <<>>
    /\ atTimers = <<>>
    /\ atMemoSigns = <<>>
    /\ atStorePnl = <<>>
    /\ atUpdates = 0

InitDashboard ==
    /\ stStatus = "disconnected"
    /\ stFake = FALSE
    /\ stReconnect = 0
    /\ stError = FALSE
    /\ stSource = "none"
    /\ cmPhase = "new"
    /\ cmTimerLeft = -1
    /\ cmSinceStart = 0
    /\ cmUsingMock = FALSE
    /\ cmLastSuccess = FALSE
    /\ cmReal = FALSE
    /\ cmMock = FALSE
    /\ cmFallbacks = 0
    /\ cmFirstData = -1
    /\ cmSwitched = FALSE
    /\ cmMockAfter = FALSE
    /\ mkStatus = "disconnected"
    /\ mkPending = FALSE
    /\ mkInterval = FALSE
    /\ hlWs = "none"
    /\ hlStatus = "disconnected"
    /\ hlAttempts = 0
    /\ hlReconnectLeft = -1
    /\ hlHeartbeatLeft = -1
    /\ hlSinceMessage = 0
    /\ hlIntentional = FALSE
    /\ hlDelay = 0
    /\ hlDelayAttempts = 0
    /\ hlClosedBy = "none"

InitRetryWith(config) ==
    /\ rtPhase = "ready"
    /\ rtAttempt = 0
    /\ rtOutcomes = <<>>
    /\ rtError = [raised |-> "none", cause |-> "none"]
    /\ rtConfig = config
    /\ rtDelay = 0
    /\ rtSlept = <<>>

\* the decorator of DESIGN_DECISIONS around a call not yet made
InitRetry == InitRetryWith(CodeRetry)

Init ==
    /\ \E batch \in Batches, file \in StateFiles : InitPipeline(batch, file)
    /\ InitRateLimiter
    /\ InitRetry
    /\ InitDashboard
    /\ InitWidgets
    /\ InitResolver
    /\ InitWsClient
    /\ InitMarket
    /\ InitStateStore

\* a fatal error reported with the state the run ends in
AbortUnstaged(cause) ==
    /\ pc' = "Aborted"
    /\ errorStage' = "Aborted"
    /\ errorCause' = cause

\* a fatal error in the current stage: the run ends in Aborted and the error
\* is reported with the stage it occurred in
Abort(cause) ==
    /\ pc' = "Aborted"
    /\ errorStage' = pc
    /\ errorCause' = cause

\* Idle -> Loading
Start ==
    /\ pc = "Idle"
    /\ pc' = NextStage(pc)
    /\ UNCHANGED <<rlVars, rtVars, ssVars, feVars, exited, run, upstream, stateFile, sinkVars, runVars, histVars>>

\* Step 1: load configuration and state
Load ==
    /\ pc = "Loading"
    /\ Readable(stateFile)
    /\ checkpoint' = ReadState(stateFile)
    /\ pc' = NextStage(pc)
    /\ UNCHANGED <<rlVars, rtVars, ssVars, feVars, exited, run, upstream, stateFile, sinkVars, raw, swaps, rejected,
                   latestBlock, newSwaps, tokens, prices, enriched, skipped,
                   summary, errorStage, errorCause, histVars>>

\* Step 1 fails: the configuration does not validate
LoadFail ==
    /\ pc = "Loading"
    /\ Abort("config")
    /\ UNCHANGED <<rlVars, rtVars, ssVars, feVars, exited, run, upstream, stateFile, sinkVars, checkpoint, raw, swaps,
                   rejected, latestBlock, newSwaps, tokens, prices, enriched,
                   skipped, summary, histVars>>

\* Step 1 fails: state.json exists and does not parse
LoadStateFail ==
    /\ pc = "Loading"
    /\ ~Readable(stateFile)
    /\ Abort("state")
    /\ UNCHANGED <<rlVars, rtVars, ssVars, feVars, exited, run, upstream, stateFile, sinkVars, checkpoint, raw, swaps,
                   rejected, latestBlock, newSwaps, tokens, prices, enriched,
                   skipped, summary, histVars>>

\* Step 2: fetch swap data; "Exit if no swaps found"
Fetch ==
    /\ pc = "Fetching"
    /\ raw' = upstream
    /\ swaps' = Normalize(upstream)
    /\ rejected' = RejectedCount(upstream)
    /\ fetched' = TRUE
    /\ pc' = IF NothingToProcess(upstream) THEN "Done" ELSE NextStage(pc)
    /\ UNCHANGED <<rlVars, rtVars, ssVars, feVars, exited, run, upstream, stateFile, sinkVars, checkpoint, latestBlock,
                   newSwaps, tokens, prices, enriched, skipped, summary,
                   errorStage, errorCause, fileAtStart, outAtStart, writes, cpWrites,
                   prevOutcome, sameUpstream, skippedEarlier>>

\* Step 2 fails: the retries of the subgraph call are exhausted
FetchFail ==
    /\ pc = "Fetching"
    /\ Abort("fetch")
    /\ UNCHANGED <<rlVars, rtVars, ssVars, feVars, exited, run, upstream, stateFile, sinkVars, checkpoint, raw, swaps,
                   rejected, latestBlock, newSwaps, tokens, prices, enriched,
                   skipped, summary, histVars>>

\* Step 3: filter by state; "Exit if no new swaps"
Filter ==
    /\ pc = "Filtering"
    /\ latestBlock' = LatestBlock(swaps)
    /\ newSwaps' = FilterSwapsByBlock(swaps, checkpoint)
    /\ pc' = IF NothingToProcess(newSwaps') THEN "Done" ELSE NextStage(pc)
    /\ UNCHANGED <<rlVars, rtVars, ssVars, feVars, exited, run, upstream, stateFile, sinkVars, checkpoint, raw, swaps,
                   rejected, tokens, prices, enriched, skipped, summary,
                   errorStage, errorCause, histVars>>

\* Step 4a: collect the unique tokens
Collect ==
    /\ pc = "TokenCollection"
    /\ tokens' = CollectTokens(newSwaps)
    /\ pc' = NextStage(pc)
    /\ UNCHANGED <<rlVars, rtVars, ssVars, feVars, exited, run, upstream, stateFile, sinkVars, checkpoint, raw, swaps,
                   rejected, latestBlock, newSwaps, prices, enriched, skipped,
                   summary, errorStage, errorCause, histVars>>

\* Steps 4b and 5: fetch prices (some may stay unresolved), enrich
Enrich ==
    /\ pc = "PriceEnrichment"
    /\ \E priced \in SUBSET tokens :
          /\ prices' = FetchPrices(priced)
          /\ enriched' = EnrichSwaps(newSwaps, prices')
          /\ skipped' = SkippedCount(newSwaps, prices')
    /\ pc' = NextStage(pc)
    /\ UNCHANGED <<rlVars, rtVars, ssVars, feVars, exited, run, upstream, stateFile, sinkVars, checkpoint, raw, swaps,
                   rejected, latestBlock, newSwaps, tokens, summary, errorStage, errorCause,
                   histVars>>

\* Step 6: summarize
Aggregate ==
    /\ pc = "Aggregating"
    /\ summary' = Summarize(enriched)
    /\ pc' = NextStage(pc)
    /\ UNCHANGED <<rlVars, rtVars, ssVars, feVars, exited, run, upstream, stateFile, sinkVars, checkpoint, raw, swaps,
                   rejected, latestBlock, newSwaps, tokens, prices, enriched,
                   skipped, errorStage, errorCause, histVars>>

\* Step 7: write_json(swaps.json) then write_csv(summary.csv)
WriteOutputs ==
    /\ pc = "Writing"
    /\ outSwaps' = [run |-> run, rows |-> Len(enriched)]
    /\ outSummary' = [run |-> run, rows |-> Len(summary)]
    /\ writes' = writes + 2
    /\ pc' = NextStage(pc)
    /\ UNCHANGED <<rlVars, rtVars, ssVars, feVars, exited, run, upstream, stateFile, runVars, fileAtStart, outAtStart,
                   cpWrites, fetched, prevOutcome, sameUpstream, skippedEarlier>>

\* Step 7 fails in write_json: nothing is written
WriteRecordsFail ==
    /\ pc = "Writing"
    /\ Abort("write_json")
    /\ UNCHANGED <<rlVars, rtVars, ssVars, feVars, exited, run, upstream, stateFile, sinkVars, checkpoint, raw, swaps,
                   rejected, latestBlock, newSwaps, tokens, prices, enriched,
                   skipped, summary, histVars>>

\* Step 7 fails in write_csv, after swaps.json was written
WriteSummaryFail ==
    /\ pc = "Writing"
    /\ outSwaps' = [run |-> run, rows |-> Len(enriched)]
    /\ writes' = writes + 1
    /\ Abort("write_csv")
    /\ UNCHANGED <<rlVars, rtVars, ssVars, feVars, exited, run, upstream, stateFile, outSummary, checkpoint, raw, swaps,
                   rejected, latestBlock, newSwaps, tokens, prices, enriched,
                   skipped, summary, fileAtStart, outAtStart, cpWrites, fetched,
                   prevOutcome, sameUpstream, skippedEarlier>>

\* Step 7, last line: write_state(block = latest block)
UpdateCheckpoint ==
    /\ pc = "CheckpointUpdate"
    /\ stateFile' = WriteState(latestBlock)
    /\ cpWrites' = cpWrites + 1
    /\ pc' = NextStage(pc)
    /\ UNCHANGED <<rlVars, rtVars, ssVars, feVars, exited, run, upstream, sinkVars, runVars, fileAtStart, outAtStart,
                   writes, fetched, prevOutcome, sameUpstream, skippedEarlier>>

\* write_state fails: the state file keeps its previous content
UpdateCheckpointFail ==
    /\ pc = "CheckpointUpdate"
    /\ Abort("write_state")
    /\ UNCHANGED <<rlVars, rtVars, ssVars, feVars, exited, run, upstream, stateFile, sinkVars, checkpoint, raw, swaps,
                   rejected, latestBlock, newSwaps, tokens, prices, enriched,
                   skipped, summary, histVars>>

\* the process of the run exits: its memory is gone, the files stay; the
\* history now describes what the next run will find
ExitCall ==
    /\ pc \in {"Done", "Aborted"}
    /\ ~exited
    /\ exited' = TRUE
    /\ checkpoint' = 0
    /\ raw' = <<>>
    /\ swaps' = <<>>
    /\ rejected' = 0
    /\ latestBlock' = 0
    /\ newSwaps' = <<>>
    /\ tokens' = {}
    /\ prices' = <<>>
    /\ enriched' = <<>>
    /\ skipped' = 0
    /\ summary' = <<>>
    /\ errorStage' = "none"
    /\ errorCause' = "none"
    /\ fileAtStart' = stateFile
    /\ outAtStart' = <<outSwaps, outSummary>>
    /\ writes' = 0
    /\ cpWrites' = 0
    /\ UNCHANGED <<rlVars, rtVars, ssVars, feVars, pc, run, upstream, stateFile, sinkVars, fetched,
                   prevOutcome, sameUpstream>>

\* the exit of a run
Exit ==
    /\ ExitCall
    /\ UNCHANGED skippedEarlier

\* the exit of a run, the swaps it skipped and left behind the checkpoint
\* being noted
ExitNoting ==
    /\ ExitCall
    /\ skippedEarlier' =
          IF pc = "Done" /\ cpWrites > 0
          THEN skippedEarlier \cup
               {r.txHash : r \in {q \in Range(newSwaps) : ~Resolved(q, prices)}}
          ELSE skippedEarlier

\* the scheduler starts the next run; the subgraph may hold other data by then
NewRun ==
    /\ pc \in {"Done", "Aborted"}
    /\ exited
    /\ run < MaxRuns
    /\ run' = run + 1
    /\ pc' = "Idle"
    /\ exited' = FALSE
    /\ \E b \in Batches :
          /\ upstream' = b
          /\ sameUpstream' = (fetched /\ b = upstream)
    /\ prevOutcome' = pc
    /\ fetched' = FALSE
    /\ UNCHANGED <<rlVars, rtVars, ssVars, feVars, stateFile, sinkVars, runVars, fileAtStart,
                   outAtStart, writes, cpWrites, skippedEarlier>>

Next ==
    \/ Start
    \/ Load
    \/ LoadFail
    \/ LoadStateFail
    \/ Fetch
    \/ FetchFail
    \/ Filter
    \/ Collect
    \/ Enrich
    \/ Aggregate
    \/ WriteOutputs
    \/ WriteRecordsFail
    \/ WriteSummaryFail
    \/ UpdateCheckpoint
    \/ UpdateCheckpointFail
    \/ Exit
    \/ NewRun

Spec == Init /\ [][Next]_vars

\* runs that start without a state file, with the skipped swaps noted
NextSkipped ==
    \/ Start
    \/ Load
    \/ LoadFail
    \/ Fetch
    \/ FetchFail
    \/ Filter
    \/ Collect
    \/ Enrich
    \/ Aggregate
    \/ WriteOutputs
    \/ WriteRecordsFail
    \/ WriteSummaryFail
    \/ UpdateCheckpoint
    \/ UpdateCheckpointFail
    \/ ExitNoting
    \/ NewRun

InitSkipped ==
    /\ \E batch \in Batches : InitPipeline(batch, NoState)
    /\ InitRateLimiter
    /\ InitRetry
    /\ InitDashboard
    /\ InitWidgets
    /\ InitResolver
    /\ InitWsClient
    /\ InitMarket
    /\ InitStateStore

SpecSkipped == InitSkipped /\ [][NextSkipped]_vars

\* runs whose configuration validates: Step 1 never fails on the settings
NextValidConfig ==
    \/ Start
    \/ Load
    \/ LoadStateFail
    \/ Fetch
    \/ FetchFail
    \/ Filter
    \/ Collect
    \/ Enrich
    \/ Aggregate
    \/ WriteOutputs
    \/ WriteRecordsFail
    \/ WriteSummaryFail
    \/ UpdateCheckpoint
    \/ UpdateCheckpointFail
    \/ Exit
    \/ NewRun

SpecValidConfig == Init /\ [][NextValidConfig]_vars

\* ------------------------------------------- single runs on sample batches
\* the stages of one run, failures included, without the scheduler
NextOneRun ==
    \/ Start
    \/ Load
    \/ LoadFail
    \/ LoadStateFail
    \/ Fetch
    \/ FetchFail
    \/ Filter
    \/ Collect
    \/ Enrich
    \/ Aggregate
    \/ WriteOutputs
    \/ WriteRecordsFail
    \/ WriteSummaryFail
    \/ UpdateCheckpoint
    \/ UpdateCheckpointFail

\* payloads for the normalizer: two swaps of WETH for USDC, a payload
\* repeating the txHash of the first with another block and other amounts, and
\* payloads that miss a field or whose blockNumber is negative or not a number
NormalizerSamples ==
    {Payload(<<"0x", 1>>, <<1>>, "WETH", "USDC", <<100>>, <<-20000>>),
     Payload(<<"0x", 2>>, <<2>>, "WETH", "USDC", <<-300>>, <<60000>>),
     Payload(<<"0x", 1>>, <<2>>, "WETH", "USDC", <<200>>, <<-40000>>),
     Payload(<<"0x", 1>>, <<2>>, "WETH", "USDC", <<200>>, <<>>),
     Payload(<<"0x", 3>>, <<2>>, "WETH", "USDC", <<>>, <<-40000>>),
     Payload(<<>>, <<2>>, "WETH", "USDC", <<100>>, <<-20000>>),
     Payload(<<"0x", 4>>, <<2>>, "", "USDC", <<100>>, <<-20000>>),
     Payload(<<"0x", 5>>, <<2>>, "WETH", "", <<100>>, <<-20000>>),
     Payload(<<"0x", 6>>, <<-1>>, "WETH", "USDC", <<100>>, <<-20000>>),
     Payload(<<"0x", 7>>, <<>>, "WETH", "USDC", <<100>>, <<-20000>>)}

\* a run of the normalizer's samples: a first run, or one after block 1
InitNormalize ==
    /\ \E batch \in SeqsUpTo(NormalizerSamples, MaxSample),
          file \in {NoState, CorruptState, ValidState(1)} :
             InitPipeline(batch, file)
    /\ InitRateLimiter
    /\ InitRetry
    /\ InitDashboard
    /\ InitWidgets
    /\ InitResolver
    /\ InitWsClient
    /\ InitMarket
    /\ InitStateStore

SpecNormalize == InitNormalize /\ [][NextOneRun]_vars

\* swaps for the transformer: 1000 USDC for 999 USDT; 1 WETH for 2000 USDC;
\* 2000 USDC for 1 WETH in a pool listing USDC first; 1 WETH for 5 UNI;
\* 4000 USDC for 2 WETH
TransformSamples ==
    {Payload(<<"0x", 1>>, <<1>>, "USDC", "USDT", <<10000>>, <<-9990>>),
     Payload(<<"0x", 2>>, <<2>>, "WETH", "USDC", <<100>>, <<-20000>>),
     Payload(<<"0x", 3>>, <<3>>, "USDC", "WETH", <<20000>>, <<-100>>),
     Payload(<<"0x", 4>>, <<4>>, "WETH", "UNI", <<100>>, <<-500>>),
     Payload(<<"0x", 5>>, <<5>>, "WETH", "USDC", <<-200>>, <<40000>>)}

\* a run on the transformer's samples with no checkpoint to read
InitTransform ==
    /\ \E batch \in SeqsUpTo(TransformSamples, MaxSample),
          file \in {NoState, CorruptState} : InitPipeline(batch, file)
    /\ InitRateLimiter
    /\ InitRetry
    /\ InitDashboard
    /\ InitWidgets
    /\ InitResolver
    /\ InitWsClient
    /\ InitMarket
    /\ InitStateStore

SpecTransform == InitTransform /\ [][NextOneRun]_vars

\* ---------------------------------------------------- rate limiter actions
\* RateLimiter.acquire() statement by statement. The class holds no lock:
\* between two statements of one caller any other caller may run. A call in
\* rlCalls is at "while" (the loop test is next), "popleft", "if" (the limit
\* test), "wait" (wait_time is computed next and the sleep begins), "sleep"
\* or "append"; a call that raised stays there under the name of its
\* exception. time.time() is the wall clock, in whole seconds here: a second
\* may pass between any two statements, of one call or of several.

\* the calls inside acquire()
InProgress == {c \in rlCalls : c.pc \in {"while", "popleft", "if", "wait", "append", "sleep"}}

\* a second passes, wherever the callers are; a call whose wait_time is over
\* wakes at most MaxOversleep late
TickCall ==
    /\ rlClock < MaxClock
    /\ \A c \in rlCalls : c.pc = "sleep" => rlClock < c.wake + MaxOversleep
    /\ rlClock' = rlClock + 1

\* time passes between two statements of the callers
Tick ==
    /\ TickCall
    /\ UNCHANGED <<rlRequests, rlArrivals, rlGrants, rlCalls, pipeVars, rtVars, ssVars,
                   feVars>>

\* a caller enters acquire(): now = time.time()
AcquireCall ==
    /\ Len(rlArrivals) < MaxCalls
    /\ Cardinality(InProgress) < MaxCallers
    /\ rlArrivals' = Append(rlArrivals, rlClock)
    /\ rlGrants' = Append(rlGrants, <<>>)
    /\ rlCalls' = rlCalls \cup {[call |-> Len(rlArrivals) + 1, pc |-> "while", wake |-> 0]}
    /\ UNCHANGED <<rlClock, rlRequests>>

\* the call c moves to the statement at, to wake at wake when it sleeps
Goto(c, at, wake) ==
    rlCalls' = (rlCalls \ {c}) \cup {[call |-> c.call, pc |-> at, wake |-> wake]}

\* self.requests.append(now) with the now read on entry, and the return
AppendAndReturn(c) ==
    /\ rlRequests' = Append(rlRequests, rlArrivals[c.call])
    /\ rlGrants' = [rlGrants EXCEPT ![c.call] = <<rlClock>>]
    /\ rlCalls' = rlCalls \ {c}

\* the next statement of the call c
AcquireStepCall(c) ==
    /\ c \in InProgress
    /\ LET now == rlArrivals[c.call]
       IN CASE c.pc = "while" ->
                 \* while self.requests and self.requests[0] < now - self.window_seconds
                 /\ Goto(c, IF Expired(rlRequests, now) THEN "popleft" ELSE "if", 0)
                 /\ UNCHANGED <<rlRequests, rlGrants>>
            [] c.pc = "popleft" ->
                 \* self.requests.popleft(): IndexError on a deque another
                 \* caller has emptied
                 IF rlRequests = <<>>
                 THEN Goto(c, "IndexError", 0) /\ UNCHANGED <<rlRequests, rlGrants>>
                 ELSE /\ rlRequests' = Tail(rlRequests)
                      /\ Goto(c, "while", 0)
                      /\ UNCHANGED rlGrants
            [] c.pc = "if" ->
                 \* if len(self.requests) >= self.max_requests
                 /\ Goto(c, IF AtLimit(rlRequests) THEN "wait" ELSE "append", 0)
                 /\ UNCHANGED <<rlRequests, rlGrants>>
            [] c.pc = "wait" ->
                 \* wait_time = (self.requests[0] + self.window_seconds) - now,
                 \* then time.sleep(wait_time): IndexError on an emptied
                 \* deque, ValueError on a negative wait_time
                 /\ IF rlRequests = <<>>
                    THEN Goto(c, "IndexError", 0)
                    ELSE IF WaitTime(rlRequests, now) < 0
                    THEN Goto(c, "ValueError", 0)
                    ELSE /\ rlClock + WaitTime(rlRequests, now) <= MaxClock
                         /\ Goto(c, "sleep", rlClock + WaitTime(rlRequests, now))
                 /\ UNCHANGED <<rlRequests, rlGrants>>
            [] c.pc = "sleep" ->
                 \* time.sleep returns; the statement after it is the append
                 /\ rlClock >= c.wake
                 /\ AppendAndReturn(c)
            [] c.pc = "append" ->
                 AppendAndReturn(c)
    /\ UNCHANGED <<rlClock, rlArrivals>>

\* an acquire() of a caller that does nothing else; other callers may be
\* inside acquire() already
Acquire ==
    /\ AcquireCall
    /\ UNCHANGED <<pipeVars, rtVars, ssVars, feVars>>

\* one caller executes its next statement
AcquireStep ==
    /\ \E c \in rlCalls : AcquireStepCall(c)
    /\ UNCHANGED <<pipeVars, rtVars, ssVars, feVars>>

NextRateLimiter ==
    \/ Tick
    \/ Acquire
    \/ AcquireStep

\* a rate limiter alone: no run of the pipeline, no call being retried
InitRateLimiterAlone ==
    /\ InitPipeline(<<>>, NoState)
    /\ InitRateLimiter
    /\ InitRetry
    /\ InitDashboard
    /\ InitWidgets
    /\ InitResolver
    /\ InitWsClient
    /\ InitMarket
    /\ InitStateStore

SpecRateLimiter == InitRateLimiterAlone /\ [][NextRateLimiter]_vars

\* ---------------------------------------------------- retry policy actions
\* one invocation of the wrapped call and tenacity's decision on its outcome
Attempt ==
    /\ rtPhase = "ready"
    /\ \E outcome \in Outcomes, jitter \in JitterDraws :
          /\ rtAttempt' = rtAttempt + 1
          /\ rtOutcomes' = Append(rtOutcomes, outcome)
          /\ IF outcome = "ok"
             THEN /\ rtPhase' = "returned"
                  /\ UNCHANGED <<rtError, rtDelay>>
             ELSE IF ~Retryable(outcome) \/ StopAfterAttempt(rtConfig.attempts, rtAttempt')
             THEN /\ rtPhase' = "raised"
                  /\ rtError' = RaisedError(rtOutcomes')
                  /\ UNCHANGED rtDelay
             ELSE /\ rtPhase' = "sleeping"
                  /\ rtDelay' = WaitExponentialJitter(rtConfig.initial, rtConfig.max,
                                                      rtAttempt', jitter)
                  /\ UNCHANGED rtError
    /\ UNCHANGED <<rtSlept, rtConfig, pipeVars, rlVars, ssVars, feVars>>

\* the sleep between two attempts
Backoff ==
    /\ rtPhase = "sleeping"
    /\ rtSlept' = Append(rtSlept, rtDelay)
    /\ rtPhase' = "ready"
    /\ UNCHANGED <<rtAttempt, rtOutcomes, rtError, rtConfig, rtDelay, pipeVars, rlVars, ssVars,
                   feVars>>

NextRetry ==
    \/ Attempt
    \/ Backoff

\* one retried call alone, under any of the decorators
InitRetryAlone ==
    /\ InitPipeline(<<>>, NoState)
    /\ InitRateLimiter
    /\ \E config \in RetryConfigs : InitRetryWith(config)
    /\ InitDashboard
    /\ InitWidgets
    /\ InitResolver
    /\ InitWsClient
    /\ InitMarket
    /\ InitStateStore

SpecRetry == InitRetryAlone /\ [][NextRetry]_vars

\* ------------------------------------------ a run with its fetch retried
\* Step 2 under @retry: one invocation of fetch_swaps
FetchCall ==
    /\ pc = "Fetching"
    /\ Attempt

\* Step 2 under @retry: the wait before the next invocation
FetchBackoff ==
    /\ pc = "Fetching"
    /\ Backoff

\* Step 2: the retried fetch returned the swaps
FetchReturned ==
    /\ rtPhase = "returned"
    /\ Fetch

\* Step 2: the retried fetch raised, the run ends
FetchRaised ==
    /\ rtPhase = "raised"
    /\ FetchFail

NextRetriedRun ==
    \/ Start
    \/ Load
    \/ LoadFail
    \/ LoadStateFail
    \/ FetchCall
    \/ FetchBackoff
    \/ FetchReturned
    \/ FetchRaised
    \/ Filter
    \/ Collect
    \/ Enrich
    \/ Aggregate
    \/ WriteOutputs
    \/ WriteRecordsFail
    \/ WriteSummaryFail
    \/ UpdateCheckpoint
    \/ UpdateCheckpointFail

\* one run on a batch of at most one swap, from any state file
InitRetriedRun ==
    /\ \E batch \in SeqsUpTo(RawSwaps, 1), file \in StateFiles :
          InitPipeline(batch, file)
    /\ InitRateLimiter
    /\ InitRetry
    /\ InitStateStore
    /\ InitDashboard
    /\ InitWidgets
    /\ InitResolver
    /\ InitWsClient
    /\ InitMarket

\* every call returns or fails and the process keeps running: a step of the
\* run that can be taken is eventually taken
SpecRetriedRun ==
    InitRetriedRun /\ [][NextRetriedRun]_vars /\ WF_vars(NextRetriedRun)

\* ----------------------------------------------------- state store actions
MaxReads == 2

\* the file write_state() opens for writing: state.json itself
WriteInPlace == "state"

\* the file write_state() opens for writing: a temporary file, renamed onto
\* state.json once complete
WriteTarget == "temp"

\* write_state(block) opens its target: the target is empty from here on
BeginWrite ==
    /\ ssPc \in {"idle", "crashed"}
    /\ \E b \in 0..MaxBlock :
          /\ b >= ReadState(stateFile)
          /\ ssBlock' = b
    /\ ssBefore' = stateFile
    /\ IF WriteTarget = "temp"
       THEN ssTemp' = CorruptState /\ UNCHANGED stateFile
       ELSE stateFile' = CorruptState /\ UNCHANGED ssTemp
    /\ ssPc' = "open"
    /\ UNCHANGED <<ssSeen, pc, run, upstream, sinkVars, runVars, exited, histVars, rlVars,
                   rtVars, feVars>>

\* the JSON text is written and flushed to the target
FinishWrite ==
    /\ ssPc = "open"
    /\ IF WriteTarget = "temp"
       THEN ssTemp' = WriteState(ssBlock) /\ UNCHANGED stateFile
       ELSE stateFile' = WriteState(ssBlock) /\ UNCHANGED ssTemp
    /\ ssPc' = "written"
    /\ UNCHANGED <<ssBlock, ssBefore, ssSeen, pc, run, upstream, sinkVars, runVars, exited,
                   histVars, rlVars, rtVars, feVars>>

\* the temporary file is renamed onto state.json (nothing left to do when the
\* target was state.json)
Rename ==
    /\ ssPc = "written"
    /\ IF WriteTarget = "temp"
       THEN stateFile' = ssTemp /\ ssTemp' = NoState
       ELSE UNCHANGED <<stateFile, ssTemp>>
    /\ ssPc' = "idle"
    /\ UNCHANGED <<ssBlock, ssBefore, ssSeen, pc, run, upstream, sinkVars, runVars, exited,
                   histVars, rlVars, rtVars, feVars>>

\* the process dies between two steps of the write: the files stay as they are
Crash ==
    /\ ssPc \in {"open", "written"}
    /\ ssPc' = "crashed"
    /\ UNCHANGED <<ssTemp, ssBlock, ssBefore, ssSeen, pipeVars, rlVars, rtVars, feVars>>

\* a reader (a concurrent one, or the next run) opens state.json
ReadCheckpoint ==
    /\ Len(ssSeen) < MaxReads
    /\ ssSeen' = Append(ssSeen, [saw |-> stateFile, old |-> ssBefore, new |-> ssBlock])
    /\ UNCHANGED <<ssPc, ssTemp, ssBlock, ssBefore, pipeVars, rlVars, rtVars, feVars>>

NextStateStore ==
    \/ BeginWrite
    \/ FinishWrite
    \/ Rename
    \/ Crash
    \/ ReadCheckpoint

\* a state store alone, on a state file that is absent or holds a checkpoint
InitStateStoreAlone ==
    /\ \E file \in {NoState} \cup {ValidState(b) : b \in 0..MaxBlock} :
          /\ InitPipeline(<<>>, file)
          /\ ssBefore = file
          /\ ssBlock = ReadState(file)
    /\ ssPc = "idle"
    /\ ssTemp = NoState
    /\ ssSeen = <<>>
    /\ InitRateLimiter
    /\ InitRetry
    /\ InitDashboard
    /\ InitWidgets
    /\ InitResolver
    /\ InitWsClient
    /\ InitMarket

SpecStateStore == InitStateStoreAlone /\ [][NextStateStore]_vars

\* ------------------------------------------------------- price resolution
\* One run's subgraph fetch and the resolution of its tokens, token by token:
\* the static table first, the oracle's lookup by address for the others, then
\* the oracle's price; every oracle call is retried, and the limiter is
\* acquired before each request.

\* TOKEN_MAP: the tokens with a static price-feed key
StaticTokens == {"WETH", "USDC"}

\* the static table is not consulted
LookupAlways(t) == TRUE

\* coingecko_id = TOKEN_MAP.get(token_address); if coingecko_id: ... else: ...
NeedsLookup(t) == t \notin StaticTokens

\* the tokens of a run: one of the static table, one outside it, both or none
TokenSets == SUBSET {"WETH", "UNI"}

notOrVars == <<pipeVars, rtVars, ssVars, stVars, cmVars, mkVars, hlVars, pnlVars, atVars,
               wsVars, mdVars>>

\* time passes before and during the acquire() of a request
OrTick ==
    /\ orPc \in {"acquireLookup", "acquirePrice"}
    /\ TickCall
    /\ UNCHANGED <<rlRequests, rlArrivals, rlGrants, rlCalls, orVars, notOrVars>>

\* the subgraph fetch of the run: no acquire()
OrFetch ==
    /\ orPc = "fetch"
    /\ orPc' = "pick"
    /\ UNCHANGED <<orTodo, orToken, orAttempt, orPriced, orSent, orLookedUp, orFor,
                   rlVars, notOrVars>>

\* the next token: the static table decides whether a lookup is needed
OrPick ==
    /\ orPc = "pick"
    /\ IF orTodo = {}
       THEN orPc' = "done" /\ orToken' = "" /\ UNCHANGED orTodo
       ELSE \E t \in orTodo :
               /\ orToken' = t
               /\ orTodo' = orTodo \ {t}
               /\ orPc' = IF NeedsLookup(t) THEN "acquireLookup" ELSE "acquirePrice"
    /\ orAttempt' = 0
    /\ UNCHANGED <<orPriced, orSent, orLookedUp, orFor, rlVars, notOrVars>>

\* acquire() is called before a request to the oracle; the resolver is the
\* limiter's only caller
OrAcquire ==
    /\ orPc \in {"acquireLookup", "acquirePrice"}
    /\ rlCalls = {}
    /\ AcquireCall
    /\ orFor' = Append(orFor, IF orPc = "acquireLookup" THEN "lookup" ELSE "price")
    /\ UNCHANGED <<orPc, orTodo, orToken, orAttempt, orPriced, orSent, orLookedUp,
                   notOrVars>>

\* the next statement of that acquire(); the request follows its return
OrAcquireStep ==
    /\ orPc \in {"acquireLookup", "acquirePrice"}
    /\ \E c \in rlCalls : AcquireStepCall(c)
    /\ orPc' = IF rlCalls' # {} THEN orPc
              ELSE IF orPc = "acquireLookup" THEN "lookup" ELSE "price"
    /\ UNCHANGED <<orTodo, orToken, orAttempt, orPriced, orSent, orLookedUp, orFor,
                   notOrVars>>

\* a request that failed is sent again without another acquire()
OrRetryWithoutAcquire(again, retryable) ==
    IF retryable /\ ~StopAfterAttempt(MaxAttempts, orAttempt')
    THEN orPc' = IF again = "acquireLookup" THEN "lookup" ELSE "price"
    ELSE orPc' = "pick"

\* what follows a request that failed: another attempt, behind another
\* acquire(), while the error can be retried and attempts remain, else the
\* token stays unresolved
OrAfterFailure(again, retryable) ==
    IF retryable /\ ~StopAfterAttempt(MaxAttempts, orAttempt')
    THEN orPc' = again
    ELSE orPc' = "pick"

\* search_token_by_address: one request of the fallback lookup; get_price
\* that follows a lookup that succeeded is a call of its own, retried from
\* its first attempt
OrLookup ==
    /\ orPc = "lookup"
    /\ orSent' = orSent + 1
    /\ orLookedUp' = orLookedUp \cup {orToken}
    /\ \/ /\ orPc' = "acquirePrice"
          /\ orAttempt' = 0
       \/ /\ orAttempt' = orAttempt + 1
          /\ \E retryable \in BOOLEAN : OrAfterFailure("acquireLookup", retryable)
    /\ UNCHANGED <<orTodo, orToken, orPriced, orFor, rlVars, notOrVars>>

\* get_price: one request for the price
OrPrice ==
    /\ orPc = "price"
    /\ orSent' = orSent + 1
    /\ \/ /\ orPc' = "pick"
          /\ orPriced' = orPriced \cup {orToken}
          /\ orAttempt' = orAttempt + 1
       \/ /\ orAttempt' = orAttempt + 1
          /\ \E retryable \in BOOLEAN : OrAfterFailure("acquirePrice", retryable)
          /\ UNCHANGED orPriced
    /\ UNCHANGED <<orTodo, orToken, orLookedUp, orFor, rlVars, notOrVars>>

NextResolve ==
    \/ OrTick
    \/ OrFetch
    \/ OrPick
    \/ OrAcquire
    \/ OrAcquireStep
    \/ OrLookup
    \/ OrPrice

\* a run about to fetch, whose swaps will name the tokens of orTodo
InitResolve ==
    /\ InitPipeline(<<>>, NoState)
    /\ InitRateLimiter
    /\ InitRetry
    /\ InitStateStore
    /\ InitDashboard
    /\ InitWidgets
    /\ InitWsClient
    /\ InitMarket
    /\ orPc = "fetch"
    /\ orTodo \in TokenSets
    /\ orToken = ""
    /\ orAttempt = 0
    /\ orPriced = {}
    /\ orSent = 0
    /\ orLookedUp = {}
    /\ orFor = <<>>

SpecResolve == InitResolve /\ [][NextResolve]_vars

\* ------------------------------------------------------------- dashboard
\* Time is counted in whole seconds. A timer holds the seconds left until it
\* fires; time does not pass while a timer is due, but its callback may see
\* a clock some milliseconds later (TimerLateMs). The 500 ms timeout and the
\* 1-2 s interval of the mock client fire at any moment while they are set.
MaxReconnects == 6
MaxSeconds == 12

FallbackAfter == 10
HeartbeatEvery == 30
StaleAfter == 60
ReconnectBaseDelay == 1000
ReconnectMaxDelay == 30000
ReconnectMultiplier == 2

\* Math.random() * 0.25, in percent
JitterPercents == {0, 20}

notDashVars == <<pipeVars, rlVars, rtVars, ssVars, pnlVars, atVars, orVars, wsVars>>
restVars == <<notDashVars, mdVars>>

\* hyperliquid.ts calculateReconnectDelay, in ms
CalculateReconnectDelay(attempts, jitterPercent) ==
    LET exponentialDelay ==
            Min(ReconnectBaseDelay * ReconnectMultiplier ^ attempts, ReconnectMaxDelay)
        jitter == (jitterPercent * exponentialDelay) \div 100
    IN exponentialDelay + jitter

\* websocket.ts createWebSocketClient calculateReconnectDelay, in ms
WsCalculateReconnectDelay(attempts) ==
    Min(ReconnectBaseDelay * ReconnectMultiplier ^ attempts, ReconnectMaxDelay)

\* the whole seconds after which a timer of ms milliseconds has fired
TimerSeconds(ms) == (ms + 999) \div 1000

\* ConnectionBadge getStatusText
BadgeText ==
    IF stFake /\ stStatus = "connected" THEN "FAKE DATA MODE"
    ELSE IF stStatus = "connecting" /\ stReconnect > 0 THEN "Reconnecting"
    ELSE IF stStatus = "disconnected" /\ stError THEN "Error"
    ELSE IF stStatus = "connected" THEN "Connected"
    ELSE IF stStatus = "connecting" THEN "Connecting"
    ELSE "Disconnected"

\* the mock callbacks pass everything on, whatever the mode
MockAlwaysForwarded(isUsingMock) == TRUE

\* the test of the mock callbacks of fallbackToMock: if (this.isUsingMock)
MockForwarded(isUsingMock) == isUsingMock

\* the status callback the manager gives the real client: onError when there
\* is an error text, then onStatusChange
RealStatus(status, error) ==
    /\ stStatus' = status
    /\ stError' = (stError \/ error)

\* hyperliquid.ts connect(): notify 'connecting', new WebSocket
HlConnecting ==
    /\ hlStatus' = "connecting"
    /\ hlWs' = "connecting"
    /\ RealStatus("connecting", FALSE)

\* ConnectionManager.connect()
CmConnect ==
    /\ cmPhase = "new"
    /\ cmPhase' = "started"
    /\ cmSinceStart' = 0
    /\ cmTimerLeft' = FallbackAfter
    /\ cmReal' = TRUE
    /\ HlConnecting
    /\ UNCHANGED <<stFake, stReconnect, stSource, cmUsingMock, cmLastSuccess, cmMock,
                   cmFallbacks, cmFirstData, cmSwitched, cmMockAfter, mkVars, hlAttempts,
                   hlReconnectLeft, hlHeartbeatLeft, hlSinceMessage, hlIntentional,
                   hlDelay, hlDelayAttempts, hlClosedBy, restVars>>

\* ws.onopen
HlOpen ==
    /\ hlWs = "connecting"
    /\ hlWs' = "open"
    /\ hlStatus' = "connected"
    /\ RealStatus("connected", FALSE)
    /\ hlAttempts' = 0
    /\ stReconnect' = 0
    /\ hlSinceMessage' = 0
    /\ hlReconnectLeft' = -1
    /\ hlHeartbeatLeft' = HeartbeatEvery
    /\ UNCHANGED <<stFake, stSource, cmVars, mkVars, hlIntentional, hlDelay,
                   hlDelayAttempts, hlClosedBy, restVars>>

\* the data callback leaves the fallback timeout pending
KeepFallbackTimer(left) == left

\* clearFallbackTimer()
ClearFallbackTimer(left) == -1

\* ws.onmessage with prices (allMids, trades): handleMessage, then the data
\* callback of connectToHyperliquid, but for the data themselves
HlMarketDataCall ==
    /\ hlWs = "open"
    /\ hlSinceMessage' = 0
    /\ cmLastSuccess' = TRUE
    /\ cmTimerLeft' = ClearFallbackTimer(cmTimerLeft)
    /\ stSource' = "real"
    /\ cmFirstData' = IF cmFirstData = -1 THEN cmSinceStart ELSE cmFirstData
    /\ IF cmUsingMock
       THEN \* isUsingMock = false, then mockClient.disconnect(), whose
            \* 'disconnected' reaches the mock status callback
            /\ cmUsingMock' = FALSE
            /\ cmSwitched' = TRUE
            /\ IF cmMock
               THEN /\ mkInterval' = FALSE
                    /\ mkStatus' = "disconnected"
                    /\ cmMock' = FALSE
                    /\ IF MockForwarded(FALSE)
                       THEN stStatus' = "disconnected" /\ cmMockAfter' = TRUE
                       ELSE UNCHANGED <<stStatus, cmMockAfter>>
               ELSE UNCHANGED <<mkInterval, mkStatus, cmMock, stStatus, cmMockAfter>>
       ELSE UNCHANGED <<cmUsingMock, cmSwitched, mkInterval, mkStatus, cmMock, stStatus,
                        cmMockAfter>>
    /\ UNCHANGED <<stFake, stReconnect, stError, cmPhase, cmSinceStart, cmReal,
                   cmFallbacks, mkPending, hlWs, hlStatus, hlAttempts,
                   hlReconnectLeft, hlHeartbeatLeft, hlIntentional, hlDelay,
                   hlDelayAttempts, hlClosedBy, notDashVars>>

\* a message with prices whose data are not looked at
HlMarketData ==
    /\ HlMarketDataCall
    /\ UNCHANGED mdVars

\* ws.onmessage without prices (subscriptionResponse)
HlOtherMessage ==
    /\ hlWs = "open"
    /\ hlSinceMessage' = 0
    /\ UNCHANGED <<stVars, cmVars, mkVars, hlWs, hlStatus, hlAttempts, hlReconnectLeft,
                   hlHeartbeatLeft, hlIntentional, hlDelay, hlDelayAttempts, hlClosedBy,
                   restVars>>

\* ws.onerror, once for a socket, also of one that disconnect() or the
\* heartbeat has closed and whose close event has not come yet; the socket
\* then closes
HlError ==
    /\ hlWs \in {"connecting", "open", "closing"}
    /\ hlWs' = "errored"
    /\ hlClosedBy' = IF hlWs = "closing" THEN hlClosedBy ELSE "network"
    /\ hlStatus' = "disconnected"
    /\ RealStatus("disconnected", TRUE)
    /\ UNCHANGED <<stFake, stReconnect, stSource, cmVars, mkVars, hlAttempts,
                   hlReconnectLeft, hlHeartbeatLeft, hlSinceMessage, hlIntentional,
                   hlDelay, hlDelayAttempts, restVars>>

\* ws.onclose: stopHeartbeat, and unless closed intentionally notify
\* 'disconnected' and scheduleReconnect
HlClose ==
    /\ hlWs \in {"connecting", "open", "closing", "errored"}
    /\ hlWs' = "none"
    /\ hlHeartbeatLeft' = -1
    /\ hlSinceMessage' = 0
    /\ hlClosedBy' = IF hlWs \in {"closing", "errored"} THEN hlClosedBy ELSE "network"
    /\ IF hlIntentional
       THEN UNCHANGED <<hlStatus, stStatus, stError, hlAttempts, stReconnect,
                        hlReconnectLeft, hlDelay, hlDelayAttempts>>
       ELSE /\ hlAttempts < MaxReconnects
            /\ hlStatus' = "disconnected"
            /\ RealStatus("disconnected", TRUE)
            /\ \E jitterPercent \in JitterPercents :
                  /\ hlDelay' = CalculateReconnectDelay(hlAttempts, jitterPercent)
                  /\ hlReconnectLeft' = TimerSeconds(hlDelay')
            /\ hlDelayAttempts' = hlAttempts
            /\ hlAttempts' = hlAttempts + 1
            /\ stReconnect' = hlAttempts'
    /\ UNCHANGED <<stFake, stSource, cmVars, mkVars, hlIntentional, restVars>>

\* the reconnect timeout fires: connect()
HlReconnect ==
    /\ hlReconnectLeft = 0
    /\ hlReconnectLeft' = -1
    /\ HlConnecting
    /\ UNCHANGED <<stFake, stReconnect, stSource, cmVars, mkVars, hlAttempts,
                   hlHeartbeatLeft, hlSinceMessage, hlIntentional, hlDelay,
                   hlDelayAttempts, hlClosedBy, restVars>>

\* the milliseconds by which Date.now() in the callback of a timer is past
\* the time the timer was set for
TimerLateMs == {0, 3}

\* every open socket counts as stale
StaleAlways(lateMs) == hlWs = "open"

\* the test of the heartbeat check: timeSinceLastMessage > 60000, the time
\* being the whole seconds counted and what the callback is late
Stale(lateMs) ==
    hlWs = "open" /\ 1000 * hlSinceMessage + lateMs > 1000 * StaleAfter

\* the heartbeat interval fires: close a socket that is open and stale
HlHeartbeat ==
    /\ hlHeartbeatLeft = 0
    /\ hlHeartbeatLeft' = HeartbeatEvery
    /\ \E lateMs \in TimerLateMs :
          IF Stale(lateMs)
          THEN hlWs' = "closing" /\ hlClosedBy' = "heartbeat"
          ELSE UNCHANGED <<hlWs, hlClosedBy>>
    /\ UNCHANGED <<stVars, cmVars, mkVars, hlStatus, hlAttempts, hlReconnectLeft,
                   hlSinceMessage, hlIntentional, hlDelay, hlDelayAttempts, restVars>>

\* the timeout falls back only once real data has been received
FallbackAfterSuccess == cmLastSuccess

\* the test of the fallback timeout's callback
FallbackDue == ~cmLastSuccess \/ cmSinceStart >= FallbackAfter

\* the fallback timeout fires
CmFallback ==
    /\ cmTimerLeft = 0
    /\ cmTimerLeft' = -1
    /\ IF FallbackDue /\ ~cmUsingMock
       THEN \* fallbackToMock: the mock client is created and connect()ed
            /\ cmUsingMock' = TRUE
            /\ stFake' = TRUE
            /\ cmFallbacks' = cmFallbacks + 1
            /\ cmMock' = TRUE
            /\ mkStatus' = "connecting"
            /\ stStatus' = "connecting"
            /\ mkPending' = TRUE
       ELSE UNCHANGED <<cmUsingMock, stFake, cmFallbacks, cmMock, mkStatus, stStatus,
                        mkPending>>
    /\ UNCHANGED <<stReconnect, stError, stSource, cmPhase, cmSinceStart, cmLastSuccess,
                   cmReal, cmFirstData, cmSwitched, cmMockAfter, mkInterval, hlVars,
                   restVars>>

\* the 500 ms timeout of the mock's connect() fires: 'connected', first data,
\* interval started
MkStart ==
    /\ mkPending
    /\ mkPending' = FALSE
    /\ mkStatus' = "connected"
    /\ mkInterval' = TRUE
    /\ IF MockForwarded(cmUsingMock)
       THEN /\ stStatus' = "connected"
            /\ stSource' = "mock"
            /\ cmMockAfter' = (cmMockAfter \/ cmSwitched)
       ELSE UNCHANGED <<stStatus, stSource, cmMockAfter>>
    /\ UNCHANGED <<stFake, stReconnect, stError, cmPhase, cmTimerLeft, cmSinceStart,
                   cmUsingMock, cmLastSuccess, cmReal, cmMock, cmFallbacks, cmFirstData,
                   cmSwitched, hlVars, restVars>>

\* the mock's interval fires: generateMockData
MkData ==
    /\ mkInterval
    /\ IF MockForwarded(cmUsingMock)
       THEN /\ stSource' = "mock"
            /\ cmMockAfter' = (cmMockAfter \/ cmSwitched)
       ELSE UNCHANGED <<stSource, cmMockAfter>>
    /\ UNCHANGED <<stStatus, stFake, stReconnect, stError, cmPhase, cmTimerLeft,
                   cmSinceStart, cmUsingMock, cmLastSuccess, cmReal, cmMock, cmFallbacks,
                   cmFirstData, cmSwitched, mkVars, hlVars, restVars>>

\* ConnectionManager.disconnect(): both clients are disconnected and dropped
CmDisconnect ==
    /\ cmPhase = "started"
    /\ cmPhase' = "stopped"
    /\ cmTimerLeft' = -1
    /\ cmReal' = FALSE
    /\ hlIntentional' = TRUE
    /\ hlReconnectLeft' = -1
    /\ hlHeartbeatLeft' = -1
    /\ hlWs' = IF hlWs \in {"none", "errored"} THEN hlWs ELSE "closing"
    /\ hlClosedBy' = IF hlWs = "none" THEN hlClosedBy ELSE "disconnect"
    /\ hlStatus' = "disconnected"
    /\ stStatus' = "disconnected"
    /\ IF cmMock
       THEN /\ mkInterval' = FALSE
            /\ mkStatus' = "disconnected"
            /\ cmMockAfter' = (cmMockAfter \/ (MockForwarded(cmUsingMock) /\ cmSwitched))
       ELSE UNCHANGED <<mkInterval, mkStatus, cmMockAfter>>
    /\ cmMock' = FALSE
    /\ cmUsingMock' = FALSE
    /\ UNCHANGED <<stFake, stReconnect, stError, stSource, cmSinceStart, cmLastSuccess,
                   cmFallbacks, cmFirstData, cmSwitched, mkPending, hlAttempts,
                   hlSinceMessage, hlDelay, hlDelayAttempts, restVars>>

\* one second passes
DashTick ==
    /\ cmPhase = "started"
    /\ cmTimerLeft # 0
    /\ hlReconnectLeft # 0
    /\ hlHeartbeatLeft # 0
    /\ cmTimerLeft > 0 \/ hlReconnectLeft > 0 \/ hlHeartbeatLeft > 0
    /\ cmTimerLeft' = IF cmTimerLeft > 0 THEN cmTimerLeft - 1 ELSE cmTimerLeft
    /\ hlReconnectLeft' =
          IF hlReconnectLeft > 0 THEN hlReconnectLeft - 1 ELSE hlReconnectLeft
    /\ hlHeartbeatLeft' =
          IF hlHeartbeatLeft > 0 THEN hlHeartbeatLeft - 1 ELSE hlHeartbeatLeft
    /\ cmSinceStart' = Min(cmSinceStart + 1, MaxSeconds)
    /\ hlSinceMessage' =
          IF hlWs = "open" THEN Min(hlSinceMessage + 1, StaleAfter + 1) ELSE hlSinceMessage
    /\ UNCHANGED <<stVars, cmPhase, cmUsingMock, cmLastSuccess, cmReal, cmMock,
                   cmFallbacks, cmFirstData, cmSwitched, cmMockAfter, mkVars, hlWs,
                   hlStatus, hlAttempts, hlIntentional, hlDelay, hlDelayAttempts,
                   hlClosedBy, restVars>>

\* one of the first MaxSeconds seconds after connect() passes
ConnTick ==
    /\ cmSinceStart < MaxSeconds
    /\ DashTick

\* the first MaxSeconds seconds after connect(), which end before the first
\* heartbeat check, and what happens without a timer after them
NextConnection ==
    \/ CmConnect
    \/ HlOpen
    \/ HlMarketData
    \/ HlOtherMessage
    \/ HlError
    \/ HlClose
    \/ HlReconnect
    \/ CmFallback
    \/ MkStart
    \/ MkData
    \/ CmDisconnect
    \/ ConnTick

\* the dashboard page as mounted, before its effect calls connect()
InitConnection ==
    /\ InitPipeline(<<>>, NoState)
    /\ InitRateLimiter
    /\ InitRetry
    /\ InitStateStore
    /\ InitDashboard
    /\ InitWidgets
    /\ InitResolver
    /\ InitWsClient
    /\ InitMarket

SpecConnection == InitConnection /\ [][NextConnection]_vars

\* the real client for as long as it runs, once its first prices have
\* cancelled the fallback
NextHyperliquid ==
    \/ HlOpen
    \/ HlMarketData
    \/ HlOtherMessage
    \/ HlError
    \/ HlClose
    \/ HlReconnect
    \/ HlHeartbeat
    \/ CmDisconnect
    \/ DashTick

\* connect(), the socket open and the first prices received at once
InitConnected ==
    /\ InitPipeline(<<>>, NoState)
    /\ InitRateLimiter
    /\ InitRetry
    /\ InitStateStore
    /\ stStatus = "connected"
    /\ stFake = FALSE
    /\ stReconnect = 0
    /\ stError = FALSE
    /\ stSource = "real"
    /\ cmPhase = "started"
    /\ cmTimerLeft = -1
    /\ cmSinceStart = 0
    /\ cmUsingMock = FALSE
    /\ cmLastSuccess = TRUE
    /\ cmReal = TRUE
    /\ cmMock = FALSE
    /\ cmFallbacks = 0
    /\ cmFirstData = 0
    /\ cmSwitched = FALSE
    /\ cmMockAfter = FALSE
    /\ mkStatus = "disconnected"
    /\ mkPending = FALSE
    /\ mkInterval = FALSE
    /\ hlWs = "open"
    /\ hlStatus = "connected"
    /\ hlAttempts = 0
    /\ hlReconnectLeft = -1
    /\ hlHeartbeatLeft = HeartbeatEvery
    /\ hlSinceMessage = 0
    /\ hlIntentional = FALSE
    /\ hlDelay = 0
    /\ hlDelayAttempts = 0
    /\ hlClosedBy = "none"
    /\ InitWidgets
    /\ InitResolver
    /\ InitWsClient

\* the same, the prices not looked at
InitHyperliquid ==
    /\ InitConnected
    /\ InitMarket

SpecHyperliquid == InitHyperliquid /\ [][NextHyperliquid]_vars

\* ------------------------------------------------- calculatePnLWithSide
\* Prices are counted in quarters, sizes in halves, leverage in units, so
\* that every product below is an exact double; results are in hundredths.

\* A quotient and what is computed from it are doubles: a double x >= 0 is
\* [m |-> bits, e |-> k] with x = (the binary number bits) * 2^k, the bits
\* starting with a 1 (none for 0). Binary numbers are worked on eight digits
\* at a time, and an operand that is used more than once is first bound to
\* its value (CHOOSE v \in {... b ... : b \in {operand}} : TRUE).
Significand == 53

\* bits with zeros in front, n digits in all
Pad(bits, n) ==
    [i \in 1..n |-> IF i <= n - Len(bits) THEN 0 ELSE bits[i - (n - Len(bits))]]

\* bits without the zeros in front
Strip(bits) ==
    CHOOSE s \in {LET zeros == {i \in DOMAIN b : \A j \in 1..i : b[j] = 0}
                  IN SubSeq(b, Cardinality(zeros) + 1, Len(b)) : b \in {bits}} : TRUE

\* the integer with the eight binary digits b
ByteInt(b) ==
    128 * b[1] + 64 * b[2] + 32 * b[3] + 16 * b[4] + 8 * b[5] + 4 * b[6] + 2 * b[7] + b[8]

\* the eight binary digits of v < 256
IntByte(v) ==
    <<(v \div 128) % 2, (v \div 64) % 2, (v \div 32) % 2, (v \div 16) % 2,
      (v \div 8) % 2, (v \div 4) % 2, (v \div 2) % 2, v % 2>>

RECURSIVE IntDigits(_)
\* binary digits of the integer n >= 0, with zeros in front
IntDigits(n) ==
    IF n < 256 THEN IntByte(n) ELSE IntDigits(n \div 256) \o IntByte(n % 256)

\* the binary digits of the integer n >= 0
IntBits(n) == Strip(IntDigits(n))

RECURSIVE BitsInt(_)
\* the integer with the binary digits bits
BitsInt(bits) ==
    IF Len(bits) <= 8 THEN ByteInt(Pad(bits, 8))
    ELSE 256 * BitsInt(SubSeq(bits, 1, Len(bits) - 8))
            + ByteInt(SubSeq(bits, Len(bits) - 7, Len(bits)))

\* bits + 1
Increment(bits) ==
    CHOOSE s \in {(IF \A i \in DOMAIN b : b[i] = 1 THEN <<1>> ELSE <<>>)
                     \o [i \in DOMAIN b |->
                            IF \E j \in (i + 1)..Len(b) : b[j] = 0 THEN b[i] ELSE 1 - b[i]] :
                  b \in {bits}} : TRUE

\* the double nearest bits * 2^e (plus something below the last bit when
\* sticky): round to nearest, ties to the even significand
RoundToDouble(bits, e, sticky) ==
    CHOOSE d \in
        {IF Len(b) <= Significand
         THEN [m |-> b, e |-> e]
         ELSE LET keep == SubSeq(b, 1, Significand)
                  more == sticky \/ \E i \in (Significand + 2)..Len(b) : b[i] = 1
                  up == b[Significand + 1] = 1 /\ (more \/ b[Significand] = 1)
              IN [m |-> IF up THEN Increment(keep) ELSE keep,
                  e |-> e + Len(b) - Significand] : b \in {bits}} : TRUE

RECURSIVE DivBits(_, _, _, _)
\* the binary digits of (bits + r / q) * 2^e, r < q < 2^23, eight more at a
\* time until they are more than a significand holds
DivBits(r, q, bits, e) ==
    CHOOSE d \in
        {IF s = 0 \/ Len(b) > Significand
         THEN [m |-> b, e |-> e, sticky |-> s # 0]
         ELSE DivBits((256 * s) % q, q, Strip(b \o IntByte((256 * s) \div q)), e - 8) :
         s \in {r}, b \in {bits}} : TRUE

\* p / q of two integers held exactly, 0 <= p and 0 < q: the nearest double
FlDiv(p, q) ==
    CHOOSE x \in {RoundToDouble(d.m, d.e, d.sticky) :
                  d \in {DivBits(p % q, q, IntBits(p \div q), 0)}} : TRUE

RECURSIVE MulDigits(_, _, _)
\* binary digits of bits * c + carry * 2^Len(bits), c a small integer
MulDigits(bits, c, carry) ==
    CHOOSE s \in
        {IF b = <<>> THEN IntDigits(k)
         ELSE LET n == Len(b)
                  low == IF n <= 8 THEN Pad(b, 8) ELSE SubSeq(b, n - 7, n)
                  high == IF n <= 8 THEN <<>> ELSE SubSeq(b, 1, n - 8)
                  t == ByteInt(low) * c + k
              IN MulDigits(high, c, t \div 256) \o IntByte(t % 256) :
         b \in {bits}, k \in {carry}} : TRUE

\* x * c of a double x and an integer c >= 0 held exactly: the nearest double
FlMul(x, c) ==
    CHOOSE d \in {RoundToDouble(Strip(MulDigits(y.m, c, 0)), y.e, FALSE) : y \in {x}} :
        TRUE

RECURSIVE Pow2(_)
Pow2(k) == IF k = 0 THEN 1 ELSE 2 * Pow2(k - 1)

\* x.toFixed(2) of a double x >= 0, in hundredths: the integer n for which
\* n / 100 - x is nearest zero, the larger n of two
Hundredths(x) ==
    CHOOSE n \in {IF k <= 0 THEN BitsInt(y) * Pow2(0 - k)
                  ELSE IF Len(y) < k THEN 0
                  ELSE BitsInt(SubSeq(y, 1, Len(y) - k)) + y[Len(y) - k + 1] :
                  y \in {Strip(MulDigits(x.m, 100, 0))}, k \in {0 - x.e}} : TRUE

\* the results are cut off after two decimals instead of rounded
Truncate2(num, den) ==
    LET q == (100 * Abs(num)) \div den
    IN IF num < 0 THEN 0 - q ELSE q

\* parseFloat(x.toFixed(2)) of the double x = num / den (den > 0), in
\* hundredths; toFixed rounds the magnitude and puts the sign in front
ToFixed2(num, den) ==
    LET q == Hundredths(FlDiv(Abs(num), den))
    IN IF num < 0 THEN 0 - q ELSE q

\* parseFloat(pnlPercentage.toFixed(2)) of
\* pnlPercentage = (pnlAbsolute / entryValue) * 100, in hundredths
PercentageFixed2(pnlAbsolute, entryValue) ==
    LET q == Hundredths(FlMul(FlDiv(Abs(pnlAbsolute), entryValue), 100))
    IN IF pnlAbsolute < 0 THEN 0 - q ELSE q

IsFinite(x) == x.kind = "finite"

CalculatePnLWithSide(entryPrice, currentPrice, size, side, leverage) ==
    IF ~IsFinite(entryPrice) \/ ~IsFinite(currentPrice) \/ ~IsFinite(size)
          \/ ~IsFinite(leverage)
    THEN ZeroResult
    ELSE IF entryPrice.v <= 0 \/ currentPrice.v <= 0 \/ leverage.v <= 0
    THEN ZeroResult
    ELSE IF size.v = 0
    THEN ZeroResult
    ELSE LET absSize == Abs(size.v)
             \* in eighths
             entryValue == entryPrice.v * absSize
             currentValue == currentPrice.v * absSize
             pnlAbsolute ==
                 IF side = "long"
                 THEN (currentPrice.v - entryPrice.v) * absSize * leverage.v
                 ELSE (entryPrice.v - currentPrice.v) * absSize * leverage.v
         IN [absolute |-> ToFixed2(pnlAbsolute, 8),
             percentage |-> PercentageFixed2(pnlAbsolute, entryValue),
             entryValue |-> ToFixed2(entryValue, 8),
             currentValue |-> ToFixed2(currentValue, 8)]

\* 1000 against 1000.25 gives percentages that end in a 5 in the third
\* decimal
EntryPrices ==
    {NaN, PosInfinity, Finite(-4), Finite(0), Finite(360), Finite(400), Finite(4000)}
CurrentPrices ==
    {NaN, NegInfinity, Finite(0), Finite(360), Finite(400), Finite(401), Finite(440),
     Finite(4001)}
Sizes == {NaN, Finite(-1), Finite(0), Finite(1), Finite(4)}
Leverages == {PosInfinity, Finite(-1), Finite(0), Finite(1), Finite(3), Finite(10)}
PositionSides == {"long", "short"}

CallPnL ==
    /\ ~pnlDone
    /\ pnlDone' = TRUE
    /\ pnlResult' = CalculatePnLWithSide(pnlArgs.entryPrice, pnlArgs.currentPrice,
                                          pnlArgs.size, pnlArgs.side, pnlArgs.leverage)
    /\ UNCHANGED <<pnlArgs, pipeVars, rlVars, rtVars, ssVars, stVars, cmVars, mkVars,
                   hlVars, atVars, orVars, wsVars, mdVars>>

NextPnL == CallPnL

InitPnL ==
    /\ InitPipeline(<<>>, NoState)
    /\ InitRateLimiter
    /\ InitRetry
    /\ InitStateStore
    /\ InitDashboard
    /\ InitResolver
    /\ InitWsClient
    /\ InitMarket
    /\ pnlArgs \in [entryPrice : EntryPrices, currentPrice : CurrentPrices, size : Sizes,
                      side : PositionSides, leverage : Leverages]
    /\ pnlResult = ZeroResult
    /\ pnlDone = FALSE
    /\ atVersion = "memo"
    /\ atSides = [id \in PositionIds |-> "long"]
    /\ atMarket = <<>>
    /\ atExternal = 0
    /\ atRenderPending = FALSE
    /\ atMemoDirty = FALSE
    /\ atEffectDirty = FALSE
    /\ atRendered = <<>>
    /\ atPhase = "idle"
    /\ atPrevSigns = [id \in PositionIds |-> 0]
    /\ atFlipped = [id \in PositionIds |-> FALSE]
    /\ atTimers = [id \in PositionIds |-> FALSE]
    /\ atMemoSigns = [id \in PositionIds |-> 0]
    /\ atStorePnl = [id \in PositionIds |-> 0]
    /\ atUpdates = 0

SpecPnL == InitPnL /\ [][NextPnL]_vars

\* ------------------------------------------------------------ AgentTable
\* Objects are compared by identity in dependency lists and by setState, so
\* an update with a new object always counts as a change: the model keeps,
\* for the memo and for the effect, whether a dependency has changed.
MaxExternal == 2
MaxUpdates == 2

notAtVars == <<pipeVars, rlVars, rtVars, ssVars, stVars, cmVars, mkVars, hlVars, pnlVars,
               orVars, wsVars, mdVars>>

\* prices of the positions' symbol, in quarters
MarketPrices == {360, 400, 440}

\* a position of the store: entry price 100, size 1, leverage 1
AgentPosition(side) ==
    [entryPrice |-> Finite(400), size |-> Finite(2), leverage |-> Finite(1), side |-> side]

\* part3-frontend AgentTable: pnlResult of a position in the useMemo
MemoPnL(side, market) ==
    IF market = <<>>
    THEN ZeroResult
    ELSE LET position == AgentPosition(side)
         IN CalculatePnLWithSide(position.entryPrice, Finite(market[1]), position.size,
                                 position.side, position.leverage)

\* currentSign of the useEffect
SignOf(x) == IF x > 0 THEN 1 ELSE IF x < 0 THEN -1 ELSE 0

\* Frontend AgentTable: the pnl its useEffect stores, in hundredths:
\* parseFloat(pnl.toFixed(2)) of
\* pnl = (priceDiff / entryPrice) * size * leverage * 100, the size in halves
StorePnL(side, market) ==
    LET position == AgentPosition(side)
        priceDiff == market[1] - position.entryPrice.v
        ratio == FlDiv(Abs(priceDiff), position.entryPrice.v)
        sized == FlMul(ratio, Abs(position.size.v))
        levered == FlMul([m |-> sized.m, e |-> sized.e - 1], position.leverage.v)
        q == Hundredths(FlMul(levered, 100))
    IN IF (priceDiff < 0) # (position.size.v < 0) THEN 0 - q ELSE q

\* the store gets new market data: updateMarketData
AtMarketUpdate ==
    /\ atExternal < MaxExternal
    /\ \E price \in MarketPrices : atMarket' = <<price>>
    /\ atExternal' = atExternal + 1
    /\ atUpdates' = 0
    /\ atRenderPending' = TRUE
    /\ atMemoDirty' = TRUE
    /\ atEffectDirty' = (atEffectDirty \/ atVersion = "store")
    /\ UNCHANGED <<atVersion, atSides, atPhase, atPrevSigns, atFlipped, atTimers,
                   atMemoSigns, atStorePnl, atRendered, notAtVars>>

\* the store gets new positions: setAgentPositions
AtPositionsUpdate ==
    /\ atExternal < MaxExternal
    /\ atSides' \in [PositionIds -> PositionSides]
    /\ atStorePnl' = [id \in PositionIds |-> 0]
    /\ atExternal' = atExternal + 1
    /\ atUpdates' = 0
    /\ atRenderPending' = TRUE
    /\ atMemoDirty' = TRUE
    /\ atEffectDirty' = (atEffectDirty \/ atVersion = "store")
    /\ UNCHANGED <<atVersion, atMarket, atPhase, atPrevSigns, atFlipped, atTimers,
                   atMemoSigns, atRendered, notAtVars>>

\* the component renders: it reads agentPositions and marketData from the
\* store; the useMemo runs again when a dependency changed, and its new array
\* is a dependency of the useEffect; the useEffect is to run when one of its
\* dependencies differs from the render before
AtRender ==
    /\ atRenderPending
    /\ atPhase = "idle"
    /\ atRenderPending' = FALSE
    /\ atPhase' = "rendered"
    /\ atRendered' = [sides |-> atSides, market |-> atMarket,
                      effectDue |-> atEffectDirty \/ (atVersion = "memo" /\ atMemoDirty)]
    /\ atEffectDirty' = FALSE
    /\ IF atVersion = "memo" /\ atMemoDirty
       THEN /\ atMemoSigns' =
                  [id \in PositionIds |-> SignOf(MemoPnL(atSides[id], atMarket).absolute)]
            /\ atMemoDirty' = FALSE
       ELSE UNCHANGED <<atMemoSigns, atMemoDirty>>
    /\ UNCHANGED <<atVersion, atSides, atMarket, atExternal, atPrevSigns, atFlipped,
                   atTimers, atStorePnl, atUpdates, notAtVars>>

\* the useEffect of the part3-frontend AgentTable: setPrevSigns(newSigns),
\* setFlippedPositions(...), a timeout for every flip
MemoEffect ==
    LET flip == [id \in PositionIds |->
                    /\ atPrevSigns[id] # 0
                    /\ atMemoSigns[id] # 0
                    /\ atPrevSigns[id] # atMemoSigns[id]]
    IN /\ atPrevSigns' = atMemoSigns
       /\ atFlipped' = [id \in PositionIds |-> atFlipped[id] \/ flip[id]]
       /\ atTimers' = [id \in PositionIds |-> atTimers[id] \/ flip[id]]
       /\ atMemoDirty' = TRUE
       /\ atEffectDirty' = TRUE
       /\ atRenderPending' = TRUE
       /\ atUpdates' = Min(atUpdates + 1, MaxUpdates)
       /\ UNCHANGED atStorePnl

\* the useEffect of the Frontend AgentTable, on the agentPositions and the
\* marketData of its render: updateAgentPnL for every position with market
\* data, each a new agentPositions array in the store
StoreEffect ==
    /\ IF atRendered.market # <<>>
       THEN /\ atStorePnl' = [id \in PositionIds |->
                                 StorePnL(atRendered.sides[id], atRendered.market)]
            /\ atEffectDirty' = TRUE
            /\ atRenderPending' = TRUE
            /\ atUpdates' = Min(atUpdates + 1, MaxUpdates)
       ELSE UNCHANGED <<atStorePnl, atEffectDirty, atRenderPending, atUpdates>>
    /\ UNCHANGED <<atPrevSigns, atFlipped, atTimers, atMemoDirty>>

\* the effects of a render run: the useEffect when a dependency changed
AtEffect ==
    /\ atPhase = "rendered"
    /\ atPhase' = "idle"
    /\ IF ~atRendered.effectDue
       THEN UNCHANGED <<atPrevSigns, atFlipped, atTimers, atMemoDirty, atEffectDirty,
                        atRenderPending, atUpdates, atStorePnl>>
       ELSE IF atVersion = "memo" THEN MemoEffect ELSE StoreEffect
    /\ UNCHANGED <<atVersion, atSides, atMarket, atExternal, atMemoSigns, atRendered,
                   notAtVars>>

\* the 1 s timeout of a flip: setFlippedPositions with a new object
AtFlipTimeout ==
    /\ \E id \in PositionIds :
          /\ atTimers[id]
          /\ atTimers' = [atTimers EXCEPT ![id] = FALSE]
          /\ atFlipped' = [atFlipped EXCEPT ![id] = FALSE]
    /\ atRenderPending' = TRUE
    /\ atUpdates' = Min(atUpdates + 1, MaxUpdates)
    /\ UNCHANGED <<atVersion, atSides, atMarket, atExternal, atMemoDirty, atEffectDirty,
                   atPhase, atPrevSigns, atMemoSigns, atStorePnl, atRendered, notAtVars>>

\* nothing of the component is due: no render, no effect, no timeout
AtQuiescent ==
    /\ ~atRenderPending
    /\ atPhase = "idle"
    /\ \A id \in PositionIds : ~atTimers[id]

NextAgentTable ==
    \/ AtMarketUpdate
    \/ AtPositionsUpdate
    \/ AtRender
    \/ AtEffect
    \/ AtFlipTimeout

\* either AgentTable, mounted with positions in the store and no market data
InitAgentTable ==
    /\ InitPipeline(<<>>, NoState)
    /\ InitRateLimiter
    /\ InitRetry
    /\ InitStateStore
    /\ InitDashboard
    /\ InitResolver
    /\ InitWsClient
    /\ InitMarket
    /\ pnlArgs = [entryPrice |-> Finite(0), currentPrice |-> Finite(0), size |-> Finite(0),
                   side |-> "long", leverage |-> Finite(1)]
    /\ pnlResult = ZeroResult
    /\ pnlDone = FALSE
    /\ atVersion \in {"memo", "store"}
    /\ atSides \in [PositionIds -> PositionSides]
    /\ atMarket = <<>>
    /\ atExternal = 0
    /\ atRenderPending = TRUE
    /\ atMemoDirty = TRUE
    /\ atEffectDirty = TRUE
    /\ atRendered = <<>>
    /\ atPhase = "idle"
    /\ atPrevSigns = [id \in PositionIds |-> 0]
    /\ atFlipped = [id \in PositionIds |-> FALSE]
    /\ atTimers = [id \in PositionIds |-> FALSE]
    /\ atMemoSigns = [id \in PositionIds |-> 0]
    /\ atStorePnl = [id \in PositionIds |-> 0]
    /\ atUpdates = 0

\* React runs every render and every effect that is due, timeouts fire
SpecAgentTable ==
    /\ InitAgentTable
    /\ [][NextAgentTable]_vars
    /\ WF_vars(AtRender)
    /\ WF_vars(AtEffect)
    /\ WF_vars(AtFlipTimeout)

\* ------------------------------------------------ generic WebSocket client
\* createWebSocketClient of lib/websocket.ts, used on its own: connect(), the
\* socket's events, the reconnect timeout and disconnect().

\* a maxReconnectAttempts given in the configuration
WsMaxReconnectAttempts == 3

\* the configurations: maxReconnectAttempts left out (the default, Infinity)
\* or given
WsConfigs == {<<>>, <<WsMaxReconnectAttempts>>}

\* reconnectAttempts >= maxReconnectAttempts, never true of Infinity
AttemptsExhausted(attempts, max) == max # <<>> /\ attempts >= max[1]

notWsVars == <<pipeVars, rlVars, rtVars, ssVars, stVars, cmVars, mkVars, hlVars, pnlVars,
               atVars, orVars, mdVars>>

\* disconnect() leaves a pending reconnect timeout alone
KeepTimeout(pending) == pending

\* if (reconnectTimeout) { clearTimeout(reconnectTimeout); reconnectTimeout = null }
ClearTimeout(pending) == FALSE

\* scheduleReconnect()
WsScheduleReconnect ==
    IF wsIntentional \/ AttemptsExhausted(wsAttempts, wsMaxAttempts)
    THEN wsStatus' = "disconnected" /\ wsTimer' = wsTimer
    ELSE wsStatus' = "disconnected" /\ wsTimer' = TRUE

\* connect(): nothing with a socket open or connecting, else a new socket,
\* or a reconnect scheduled when creating it throws
WsConnectCall ==
    IF wsSock \in {"open", "connecting"}
    THEN UNCHANGED <<wsSock, wsStatus, wsTimer>>
    ELSE \/ wsSock' = "connecting" /\ wsStatus' = "connecting" /\ UNCHANGED wsTimer
         \/ UNCHANGED wsSock /\ WsScheduleReconnect

\* the page calls connect()
WsConnect ==
    /\ wsPhase = "new"
    /\ wsPhase' = "started"
    /\ WsConnectCall
    /\ UNCHANGED <<wsAttempts, wsIntentional, wsMaxAttempts, notWsVars>>

\* ws.onopen
WsOpen ==
    /\ wsSock = "connecting"
    /\ wsSock' = "open"
    /\ wsStatus' = "connected"
    /\ wsAttempts' = 0
    /\ wsTimer' = ClearTimeout(wsTimer)
    /\ UNCHANGED <<wsPhase, wsIntentional, wsMaxAttempts, notWsVars>>

\* ws.onerror, once for a socket, also of one that disconnect() has closed
\* and whose close event has not come yet: logged; the socket then closes
WsError ==
    /\ wsSock \in {"connecting", "open", "closing"}
    /\ wsSock' = "errored"
    /\ UNCHANGED <<wsPhase, wsStatus, wsAttempts, wsTimer, wsIntentional, wsMaxAttempts, notWsVars>>

\* ws.onclose: unless closed intentionally notify 'disconnected' and
\* scheduleReconnect
WsClose ==
    /\ wsSock \in {"connecting", "open", "closing", "errored"}
    /\ wsSock' = "none"
    /\ IF wsIntentional
       THEN UNCHANGED <<wsStatus, wsTimer>>
       ELSE WsScheduleReconnect
    /\ UNCHANGED <<wsPhase, wsAttempts, wsIntentional, wsMaxAttempts, notWsVars>>

\* the reconnect timeout fires: reconnectAttempts++, connect()
WsReconnect ==
    /\ wsTimer
    /\ wsAttempts < MaxReconnects
    /\ wsAttempts' = wsAttempts + 1
    /\ \/ /\ wsSock \in {"open", "connecting"}
          /\ wsTimer' = FALSE
          /\ UNCHANGED <<wsSock, wsStatus>>
       \/ /\ wsSock \notin {"open", "connecting"}
          /\ wsSock' = "connecting"
          /\ wsStatus' = "connecting"
          /\ wsTimer' = FALSE
       \/ /\ wsSock \notin {"open", "connecting"}
          /\ UNCHANGED wsSock
          /\ wsStatus' = "disconnected"
          /\ wsTimer' = (~wsIntentional /\ ~AttemptsExhausted(wsAttempts', wsMaxAttempts))
    /\ UNCHANGED <<wsPhase, wsIntentional, wsMaxAttempts, notWsVars>>

\* disconnect()
WsDisconnect ==
    /\ wsPhase = "started"
    /\ wsPhase' = "stopped"
    /\ wsIntentional' = TRUE
    /\ wsTimer' = ClearTimeout(wsTimer)
    /\ wsSock' = IF wsSock \in {"none", "errored"} THEN wsSock ELSE "closing"
    /\ wsStatus' = "disconnected"
    /\ UNCHANGED <<wsAttempts, wsMaxAttempts, notWsVars>>

\* either client from connect() to after disconnect()
NextDisconnect ==
    \/ WsConnect
    \/ WsOpen
    \/ WsError
    \/ WsClose
    \/ WsReconnect
    \/ WsDisconnect
    \/ HlOpen
    \/ HlMarketData
    \/ HlOtherMessage
    \/ HlError
    \/ HlClose
    \/ HlReconnect
    \/ HlHeartbeat
    \/ CmDisconnect
    \/ DashTick

\* the page runs one client: the Hyperliquid client, connected and with its
\* first prices, or the generic client, created and not yet connected
InitDisconnect ==
    \/ /\ InitHyperliquid
    \/ /\ InitPipeline(<<>>, NoState)
       /\ InitRateLimiter
       /\ InitRetry
       /\ InitStateStore
       /\ InitDashboard
       /\ InitWidgets
       /\ InitResolver
       /\ wsPhase = "new"
       /\ wsSock = "none"
       /\ wsStatus = "disconnected"
       /\ wsAttempts = 0
       /\ wsMaxAttempts \in WsConfigs
       /\ wsTimer = FALSE
       /\ wsIntentional = FALSE
       /\ InitMarket

SpecDisconnect == InitDisconnect /\ [][NextDisconnect]_vars

\* ------------------------------------------------------------ market data
\* handleMessage of the Hyperliquid client with the data it emits, and
\* updateMarketData of the store. Prices are whole dollars; bid and ask are
\* in units of 1/PriceScale dollar, so that price * 0.9995 is exact.

MaxMarketUpdates == 3

PriceScale == 10000
BidFactor == 9995
AskFactor == 10005

\* SYMBOLS, of which two
HlSymbols == {"BTC", "ETH"}

\* prices of a message, after parseFloat
PriceInputs == {0, 99, 100}

\* normalizeSymbol
NormalizeSymbol(hlSymbol) ==
    IF hlSymbol = "BTC" THEN "BTC-USD"
    ELSE IF hlSymbol = "ETH" THEN "ETH-USD"
    ELSE IF hlSymbol = "SOL" THEN "SOL-USD"
    ELSE hlSymbol

\* normalizeHyperliquidData: bid and ask of the existing data when it has
\* them and they are not 0, else estimated from the price
NormalizeHyperliquidData(symbol, price, existingData) ==
    [has |-> TRUE,
     symbol |-> NormalizeSymbol(symbol),
     price |-> price,
     bid |-> IF existingData.has /\ existingData.bid # 0
             THEN existingData.bid ELSE price * BidFactor,
     ask |-> IF existingData.has /\ existingData.ask # 0
             THEN existingData.ask ELSE price * AskFactor]

\* a symbol without an entry counts as stored with price 0
DirectionFromZero(existing, price) ==
    IF price > existing.price THEN "up"
    ELSE IF price < existing.price THEN "down"
    ELSE "neutral"

\* priceDirection of updateMarketData
PriceDirection(existing, price) ==
    IF existing.has
    THEN IF price > existing.price THEN "up"
         ELSE IF price < existing.price THEN "down"
         ELSE "neutral"
    ELSE "neutral"

\* updateMarketData(data)
UpdateMarketData(data) ==
    /\ stMarket' = [stMarket EXCEPT ![data.symbol] =
                        [has |-> TRUE, symbol |-> data.symbol, price |-> data.price,
                         bid |-> data.bid, ask |-> data.ask,
                         priceDirection |->
                             PriceDirection(stMarket[data.symbol], data.price)]]
    /\ mdData' = data
    /\ mdCalls' = mdCalls + 1

\* ws.onmessage with the price of one symbol (allMids, trades): handleMessage
\* emits the MarketData, the manager's data callback hands it to the page,
\* which stores it
MdHlPrices ==
    /\ mdCalls < MaxMarketUpdates
    /\ \E symbol \in HlSymbols, price \in PriceInputs :
          LET marketData ==
                  NormalizeHyperliquidData(symbol, price, hlLast[NormalizeSymbol(symbol)])
          IN /\ hlLast' = [hlLast EXCEPT ![marketData.symbol] = marketData]
             /\ UpdateMarketData(marketData)
    /\ mdFrom' = "real"
    /\ HlMarketDataCall

\* the page stores data of its own making
MdPageUpdate ==
    /\ mdCalls < MaxMarketUpdates
    /\ \E symbol \in StoreSymbols, price \in PriceInputs :
          UpdateMarketData([has |-> TRUE, symbol |-> symbol, price |-> price,
                            bid |-> price * PriceScale, ask |-> price * PriceScale])
    /\ mdFrom' = "page"
    /\ UNCHANGED <<hlLast, stVars, cmVars, mkVars, hlVars, notDashVars>>

\* setConnectionStatus, setReconnectAttempt, setIsFakeData,
\* setConnectionError: the store's other fields
MdSetOther ==
    /\ \/ /\ stStatus' \in {"connecting", "connected", "disconnected"} \ {stStatus}
          /\ UNCHANGED <<stReconnect, stFake, stError>>
       \/ /\ stReconnect' = 1 - stReconnect
          /\ stReconnect \in {0, 1}
          /\ UNCHANGED <<stStatus, stFake, stError>>
       \/ /\ stFake' = ~stFake
          /\ UNCHANGED <<stStatus, stReconnect, stError>>
       \/ /\ stError' = ~stError
          /\ UNCHANGED <<stStatus, stReconnect, stFake>>
    /\ UNCHANGED <<stSource, cmVars, mkVars, hlVars, restVars>>

NextMarket ==
    \/ MdHlPrices
    \/ MdPageUpdate
    \/ MdSetOther

\* the Hyperliquid client connected, lastPrices = {} and marketData: {}
InitMarketData ==
    /\ InitConnected
    /\ hlLast = [s \in StoreSymbols |-> NoData]
    /\ stMarket = [s \in StoreSymbols |-> NoEntry]
    /\ mdData = NoData
    /\ mdFrom = "none"
    /\ mdCalls = 0

SpecMarket == InitMarketData /\ [][NextMarket]_vars

\* the run statistics emitted at Done
RunStatistics ==
    [fetched |-> Len(raw),
     enriched |-> Len(enriched),
     skipped |-> skipped,
     rejected |-> rejected,
     uniqueTokens |-> Cardinality(tokens),
     pairs |-> Len(summary)]

\* ------------------------------------------------- orchestrator properties
\* the persisted last_processed_block, 0 when the state file holds none
PersistedBlock == ReadState(stateFile)

Outputs == <<outSwaps, outSummary>>

\* C1 (idempotence): when the previous run ended in Done and this run's fetch
\* returns the batch the previous run fetched, this run filters every record
\* out, enriches and writes nothing, and leaves the state file as it found it.
C1_Idempotence ==
    (prevOutcome = "Done" /\ sameUpstream /\ fetched) =>
        /\ pc \in {"Filtering", "Done"}
        /\ newSwaps = <<>>
        /\ enriched = <<>>
        /\ writes = 0
        /\ cpWrites = 0
        /\ Outputs = outAtStart
        /\ stateFile = fileAtStart

\* the second run ended after a first run that processed and committed swaps
C1_Witness ==
    /\ prevOutcome = "Done"
    /\ sameUpstream
    /\ pc = "Done"
    /\ ~exited
    /\ swaps # <<>>
    /\ outSwaps.run = run - 1
    /\ stateFile = ValidState(LatestBlock(swaps))
    /\ stateFile.block > 0

\* C2 (checkpoint-write ordering): a failure of the Writing stage, in the first
\* write or in the second after the first succeeded, ends the run in Aborted
\* with the state file equal to its content at the start of the run.
C2_WriteFailureKeepsCheckpoint ==
    errorStage = "Writing" =>
        /\ pc = "Aborted"
        /\ cpWrites = 0
        /\ stateFile = fileAtStart

\* write_csv failed after write_json succeeded, on swaps newer than the checkpoint
C2_Witness ==
    /\ pc = "Aborted"
    /\ errorStage = "Writing"
    /\ writes = 1
    /\ latestBlock > ReadState(fileAtStart)
    /\ fileAtStart.kind = "valid"

\* C3 (monotonic checkpoint): no step of any run, whatever it fetched and
\* however it ends, lowers the persisted last_processed_block, and a run that
\* ends with no new swaps leaves the state file untouched.
C3_MonotonicCheckpoint ==
    [][/\ ReadState(stateFile') >= ReadState(stateFile)
       /\ (pc' = "Done" /\ ~exited' /\ newSwaps' = <<>>) => stateFile' = fileAtStart']_vars

\* the second run advanced a checkpoint the first run had written
C3_Witness ==
    /\ run = 2
    /\ prevOutcome = "Done"
    /\ cpWrites = 1
    /\ fileAtStart.kind = "valid"
    /\ fileAtStart.block > 0
    /\ stateFile.block > fileAtStart.block

\* C4 (fatal failure): whenever a run enters Aborted, the state file equals its
\* content at the start of the run and the reported stage is the state the
\* orchestrator was in when the failure occurred.
C4_FatalFailure ==
    [][(pc' = "Aborted" /\ pc # "Aborted") =>
          /\ errorStage' = pc
          /\ stateFile' = fileAtStart'
          /\ cpWrites' = 0]_vars

\* a later run aborted while fetching, with a checkpoint from an earlier run
C4_Witness ==
    /\ pc = "Aborted"
    /\ errorStage = "Fetching"
    /\ run = 2
    /\ stateFile.kind = "valid"
    /\ outSwaps.run = 1

\* the transitions the state machine of section 4.6 permits; Done and Aborted
\* are left only when the scheduler starts the next run
Permitted(from, to) ==
    \/ from = "Idle" /\ to = "Loading"
    \/ from = "Loading" /\ to \in {"Fetching", "Aborted"}
    \/ from = "Fetching" /\ to \in {"Filtering", "Done", "Aborted"}
    \/ from = "Filtering" /\ to \in {"TokenCollection", "Done", "Aborted"}
    \/ from = "TokenCollection" /\ to \in {"PriceEnrichment", "Aborted"}
    \/ from = "PriceEnrichment" /\ to \in {"Aggregating", "Aborted"}
    \/ from = "Aggregating" /\ to \in {"Writing", "Aborted"}
    \/ from = "Writing" /\ to \in {"CheckpointUpdate", "Aborted"}
    \/ from = "CheckpointUpdate" /\ to \in {"Done", "Aborted"}
    \/ from \in {"Done", "Aborted"} /\ to = "Idle" /\ run' = run + 1

\* C5 (state order): the orchestrator changes state only along the order Idle,
\* Loading, Fetching, Filtering, TokenCollection, PriceEnrichment, Aggregating,
\* Writing, CheckpointUpdate, Done (or jumps to Done or Aborted as permitted);
\* CheckpointUpdate is entered only from Writing with both writes of this run
\* done, and the state file changes in no state but CheckpointUpdate.
C5_StateOrder ==
    [][/\ pc' # pc => Permitted(pc, pc')
       /\ (pc' = "CheckpointUpdate" /\ pc # pc') => (pc = "Writing" /\ writes' = 2)
       /\ stateFile' # stateFile => (pc = "CheckpointUpdate" /\ writes = 2)]_vars

\* the run reached CheckpointUpdate
C5_Witness ==
    /\ pc = "CheckpointUpdate"
    /\ writes = 2
    /\ outSwaps.run = run
    /\ stateFile = fileAtStart

\* C6 (short circuit): a run whose fetch returns nothing, or whose batch is
\* empty after the filter by state, goes from that stage directly to Done and
\* ends with no output write, the output files and the state file as found.
C6_ShortCircuit ==
    [][/\ (pc = "Fetching" /\ fetched' /\ raw' = <<>>) => pc' = "Done"
       /\ (pc = "Filtering" /\ pc' # pc /\ newSwaps' = <<>>) => pc' = "Done"
       /\ (pc' = "Done" /\ ~exited' /\ (raw' = <<>> \/ newSwaps' = <<>>)) =>
             /\ writes' = 0
             /\ cpWrites' = 0
             /\ Outputs' = outAtStart'
             /\ stateFile' = fileAtStart']_vars

\* a run found only old swaps and left the output of the run before it in place
C6_Witness ==
    /\ pc = "Done"
    /\ ~exited
    /\ swaps # <<>>
    /\ newSwaps = <<>>
    /\ run = 2
    /\ outSwaps.run = 1
    /\ outSwaps.rows > 0

\* C7 (checkpoint value): after a run that performed the checkpoint update, the
\* persisted block is the largest blockNumber among the filtered swaps of the
\* run and is strictly greater than the checkpoint read at the start.
C7_CheckpointIsMaxProcessed ==
    (pc = "Done" /\ ~exited /\ cpWrites > 0) =>
        /\ cpWrites = 1
        /\ stateFile.kind = "valid"
        /\ \E r \in Range(newSwaps) : r.blockNumber = stateFile.block
        /\ \A r \in Range(newSwaps) : r.blockNumber <= stateFile.block
        /\ checkpoint = ReadState(fileAtStart)
        /\ stateFile.block > checkpoint

\* the run committed a batch of which the filter had dropped an old swap
C7_Witness ==
    /\ pc = "Done"
    /\ ~exited
    /\ cpWrites = 1
    /\ checkpoint > 0
    /\ Len(newSwaps) < Len(swaps)
    /\ Len(newSwaps) > 0

\* ------------------------------------------------- rate limiter properties
\* the acquisitions granted in the windowSeconds up to and including t
GrantedInWindow(t) ==
    {i \in DOMAIN rlGrants :
        /\ rlGrants[i] # <<>>
        /\ rlGrants[i][1] > t - WindowSeconds
        /\ rlGrants[i][1] <= t}

\* C8 (hard cap): in every trailing interval of windowSeconds, at most
\* maxRequests calls of acquire() have returned.
C8_HardCap ==
    \A t \in 0..MaxClock : Cardinality(GrantedInWindow(t)) <= MaxRequests

TransientError(e) == e \in {"RequestError", "HTTP5xx"}

\* C10 as stated: the wrapped call is never invoked more than maxAttempts
\* times, and when every invocation failed with a retryable error the policy
\* gives up after exactly maxAttempts invocations and the error that reaches
\* the caller is the error of the last invocation.
C10_LastErrorRaised ==
    /\ rtAttempt <= rtConfig.attempts
    /\ Len(rtOutcomes) = rtAttempt
    /\ (\A i \in DOMAIN rtOutcomes : TransientError(rtOutcomes[i])) =>
          /\ rtPhase \in {"ready", "sleeping", "raised"}
          /\ rtPhase = "raised" <=> rtAttempt = rtConfig.attempts
          /\ rtPhase = "raised" => rtError.raised = rtOutcomes[rtAttempt]

\* C10 (retry exhaustion): the wrapped call is never invoked more than
\* maxAttempts times, and when every invocation failed with a retryable error
\* the policy gives up after exactly maxAttempts invocations, raising a
\* terminal failure (tenacity's RetryError) whose last_attempt holds the
\* error of the last invocation.
C10_RetryExhaustion ==
    /\ rtAttempt <= rtConfig.attempts
    /\ Len(rtOutcomes) = rtAttempt
    /\ (\A i \in DOMAIN rtOutcomes : TransientError(rtOutcomes[i])) =>
          /\ rtPhase \in {"ready", "sleeping", "raised"}
          /\ rtPhase = "raised" <=> rtAttempt = rtConfig.attempts
          /\ rtPhase = "raised" =>
                rtError = [raised |-> "RetryError", cause |-> rtOutcomes[rtAttempt]]

\* under the decorator of DESIGN_DECISIONS three invocations failed, the
\* first on a connection error and the last on a 5xx response, and the
\* policy gave up with a RetryError holding the 5xx
C10_Witness ==
    /\ rtConfig = CodeRetry
    /\ rtPhase = "raised"
    /\ rtAttempt = 3
    /\ Len(rtSlept) = 2
    /\ rtOutcomes = <<"RequestError", "RequestError", "HTTP5xx">>
    /\ rtError = [raised |-> "RetryError", cause |-> "HTTP5xx"]

C12_NoAttemptAfterTerminal ==
    /\ \A i \in 1..(Len(rtOutcomes) - 1) : TransientError(rtOutcomes[i])
    /\ (rtOutcomes # <<>> /\ rtOutcomes[1] = "ok") =>
          (rtPhase = "returned" /\ rtAttempt = 1 /\ rtSlept = <<>>)
    /\ (rtOutcomes # <<>> /\ rtOutcomes[1] \in {"HTTP4xx", "ValueError"}) =>
          (rtPhase = "raised" /\ rtAttempt = 1 /\ rtSlept = <<>>
             /\ rtError.raised = rtOutcomes[1])

\* ---------------------------------------------------- transform properties
\* the run has enriched its filtered batch
EnrichmentDone ==
    \/ pc \in {"Aggregating", "Writing", "CheckpointUpdate"}
    \/ pc = "Done" /\ ~exited /\ newSwaps # <<>>
    \/ pc = "Aborted" /\ ~exited /\ errorStage \in {"Writing", "CheckpointUpdate"}

\* the run has computed its summary
SummaryDone == EnrichmentDone /\ pc # "Aggregating"

\* the volume the rule of section 4.3 gives an enriched swap
ClaimedVolume(e) ==
    LET side0 == Abs(NormalizeAmount(e.amount0, e.token0) * e.priceUSD0)
        side1 == Abs(NormalizeAmount(e.amount1, e.token1) * e.priceUSD1)
    IN CASE IsStable(e.token0) /\ IsStable(e.token1) -> side0
         [] IsStable(e.token0) /\ ~IsStable(e.token1) -> side0
         [] ~IsStable(e.token0) /\ IsStable(e.token1) -> side1
         [] OTHER -> side0 + side1

\* C13 (stablecoin-aware volume): the usdVolume of every enriched swap is the
\* token0 side when both tokens are stable, the stable token's side when
\* exactly one is, the sum of both sides when neither is, and is never
\* negative; 1000 against 999 between stablecoins at $1 gives 1000, 1 token at
\* $2000 against 2000 of a stablecoin gives 2000, 1 token at $2000 against 5
\* tokens at $10 gives 2050.
C13_StablecoinAwareVolume ==
    \A i \in DOMAIN enriched :
        LET e == enriched[i]
            n0 == Abs(NormalizeAmount(e.amount0, e.token0))
            n1 == Abs(NormalizeAmount(e.amount1, e.token1))
        IN /\ e.usdVolume = ClaimedVolume(e)
           /\ e.usdVolume >= 0
           /\ (IsStable(e.token0) /\ IsStable(e.token1) /\ n0 = 1000 /\ n1 = 999)
                 => e.usdVolume = 1000
           /\ (~IsStable(e.token0) /\ IsStable(e.token1) /\ n0 = 1 /\ n1 = 2000
                 /\ e.priceUSD0 = 2000) => e.usdVolume = 2000
           /\ (~IsStable(e.token0) /\ ~IsStable(e.token1) /\ n0 = 1 /\ n1 = 5
                 /\ e.priceUSD0 = 2000 /\ e.priceUSD1 = 10) => e.usdVolume = 2050

\* a run enriched a swap between stablecoins, one with the stablecoin as
\* token0 and one between two other tokens
C13_Witness ==
    /\ pc = "Aggregating"
    /\ Len(enriched) = 3
    /\ \E i \in DOMAIN enriched :
          IsStable(enriched[i].token0) /\ IsStable(enriched[i].token1)
    /\ \E i \in DOMAIN enriched :
          /\ IsStable(enriched[i].token0) /\ ~IsStable(enriched[i].token1)
          /\ enriched[i].amount1 < 0
    /\ \E i \in DOMAIN enriched :
          /\ ~IsStable(enriched[i].token0) /\ ~IsStable(enriched[i].token1)
          /\ enriched[i].usdVolume = 2050

RECURSIVE SumCounts(_)
SumCounts(rows) ==
    IF rows = <<>> THEN 0 ELSE Head(rows).count + SumCounts(Tail(rows))

\* the swaps of the filtered batch with a token whose price is not resolved
Unresolved ==
    {i \in DOMAIN newSwaps :
        newSwaps[i].token0 \notin DOMAIN prices
            \/ newSwaps[i].token1 \notin DOMAIN prices}

\* what holds of a run once it has enriched its batch (C14)
SkipsUnresolvedOnly ==
    /\ skipped = Cardinality(Unresolved)
    /\ Len(enriched) = Len(newSwaps) - skipped
    /\ \A i \in Unresolved :
          /\ UsdVolumeOf(newSwaps[i], prices) = <<>>
          /\ UsdVolumeOf(newSwaps[i], prices) # <<0>>
          /\ \A j \in DOMAIN enriched : enriched[j].txHash # newSwaps[i].txHash
    /\ \A i \in DOMAIN newSwaps \ Unresolved :
          \E j \in DOMAIN enriched : enriched[j].txHash = newSwaps[i].txHash
    /\ pc # "Aggregating" => SumCounts(summary) = Len(newSwaps) - skipped
    /\ outSwaps.run = run => outSwaps.rows = Len(newSwaps) - skipped

\* C14 (skip on unresolved price): each swap of the filtered batch with an
\* unresolved price has no usdVolume (not 0), is counted once in skipped, is
\* absent from the enriched swaps, from the rows counted in the summary and
\* from the rows written, and the enrichment step goes on to Aggregating.
C14_SkipOnUnresolvedPrice ==
    [][/\ (pc = "PriceEnrichment" /\ pc' # pc) => pc' = "Aggregating"
       /\ EnrichmentDone' => SkipsUnresolvedOnly']_vars

\* a run committed a batch of which one swap was enriched and one skipped
C14_Witness ==
    /\ pc = "Done"
    /\ ~exited
    /\ cpWrites = 1
    /\ skipped = 1
    /\ Len(enriched) = 1
    /\ outSwaps = [run |-> run, rows |-> 1]

\* --------------------------------------------------- normalizer properties
\* a payload section 4.4 calls malformed: a field is missing, or the
\* blockNumber is not a non-negative integer
Malformed(r) ==
    \/ r.txHash = <<>>
    \/ r.token0 = ""
    \/ r.token1 = ""
    \/ r.amount0 = <<>>
    \/ r.amount1 = <<>>
    \/ r.blockNumber = <<>>
    \/ r.blockNumber[1] < 0

\* the payloads of the fetched batch that the record s can come from
SourcesOf(s) ==
    {i \in DOMAIN raw :
        /\ ~Malformed(raw[i])
        /\ s.txHash = raw[i].txHash
        /\ s.blockNumber = raw[i].blockNumber[1]
        /\ s.token0 = raw[i].token0 /\ s.token1 = raw[i].token1
        /\ s.amount0 = raw[i].amount0[1] /\ s.amount1 = raw[i].amount1[1]}

\* what holds of a run once its fetch has returned (C15)
DropsMalformedOnly ==
    /\ rejected = Cardinality({i \in DOMAIN raw : Malformed(raw[i])})
    /\ \A j \in DOMAIN swaps : SourcesOf(swaps[j]) # {}
    /\ \A j \in DOMAIN newSwaps : SourcesOf(newSwaps[j]) # {}
    /\ \A i \in DOMAIN raw :
          ~Malformed(raw[i]) =>
              \E j \in DOMAIN swaps : swaps[j].txHash = raw[i].txHash

\* C15 (rejection of malformed input): each payload of the fetched batch that
\* misses txHash, a token address or an amount, or whose blockNumber is not a
\* non-negative integer, is counted once in rejected and no record of the
\* normalized or of the filtered batch comes from it; the fetch step does not
\* end in Aborted because of it; a payload that is complete is kept (or
\* represented by its first occurrence) whatever the sign of its amounts.
C15_MalformedRejected ==
    [][/\ (pc = "Fetching" /\ fetched') => pc' \in {"Filtering", "Done"}
       /\ fetched' => DropsMalformedOnly']_vars

\* a run filtered a batch of a swap with a negative amount0, a payload without
\* amount1 and a payload with a negative blockNumber
C15_Witness ==
    /\ pc = "TokenCollection"
    /\ Len(raw) = 3
    /\ rejected = 2
    /\ Len(newSwaps) = 1
    /\ newSwaps[1].amount0 < 0
    /\ \E i \in DOMAIN raw : raw[i].amount1 = <<>>
    /\ \E i \in DOMAIN raw : raw[i].blockNumber = <<-1>>

\* C16 (deduplication): the normalized batch holds each txHash at most once,
\* in batch order, and the record it holds for a txHash is the first
\* well-formed payload of the fetched batch with that txHash.
C16_Deduplication ==
    fetched =>
        /\ \A i, j \in DOMAIN swaps : swaps[i].txHash = swaps[j].txHash => i = j
        /\ \A j \in DOMAIN swaps :
              /\ SourcesOf(swaps[j]) # {}
              /\ \A i \in DOMAIN raw :
                    (~Malformed(raw[i]) /\ raw[i].txHash = swaps[j].txHash) =>
                        \E k \in SourcesOf(swaps[j]) : k <= i
        /\ \A i, j \in DOMAIN swaps :
              i < j => \E k \in SourcesOf(swaps[i]) :
                          \A l \in SourcesOf(swaps[j]) : k < l

\* the batch held a txHash three times with two different contents; the
\* content of the first occurrence was retained
C16_Witness ==
    /\ fetched
    /\ Len(raw) = 3
    /\ raw[1].txHash = raw[2].txHash
    /\ raw[2].txHash = raw[3].txHash
    /\ raw[1] # raw[2]
    /\ ~Malformed(raw[1]) /\ ~Malformed(raw[2])
    /\ Len(swaps) = 1
    /\ swaps[1].blockNumber = raw[1].blockNumber[1]
    /\ swaps[1].blockNumber # raw[2].blockNumber[1]

\* --------------------------------------------------- aggregation properties
RECURSIVE SumUsd(_, _)
\* the sum of usdVolume over the rows of the given indices
SumUsd(rows, idx) ==
    IF idx = {} THEN 0
    ELSE LET i == CHOOSE i \in idx : TRUE
         IN rows[i].usdVolume + SumUsd(rows, idx \ {i})

\* the enriched swaps of the run with pair identifier k
SwapsOfPair(k) == {i \in DOMAIN enriched : enriched[i].pair = k}

\* C17 (aggregation): the summary rows of a run partition its enriched swaps
\* by pair identifier: one row for each pair identifier among them and no
\* other, each with count >= 1 the number of those swaps, totalUSD >= 0 the
\* sum of their usdVolume and avgUSD = totalUSD / count; the enriched swaps are
\* swaps this run fetched at blocks above the checkpoint it read, so swaps of
\* earlier runs are in no row.
C17_AggregationPartition ==
    SummaryDone =>
        /\ {summary[i].pair : i \in DOMAIN summary}
               = {enriched[i].pair : i \in DOMAIN enriched}
        /\ \A i, j \in DOMAIN summary : summary[i].pair = summary[j].pair => i = j
        /\ \A i \in DOMAIN summary :
              LET row == summary[i] IN
              /\ row.count >= 1
              /\ row.count = Cardinality(SwapsOfPair(row.pair))
              /\ row.totalUSD >= 0
              /\ row.totalUSD = SumUsd(enriched, SwapsOfPair(row.pair))
              /\ row.avgUSD[2] >= 1
              /\ row.avgUSD[1] * row.count = row.totalUSD * row.avgUSD[2]
        /\ SumCounts(summary) = Len(enriched)
        /\ checkpoint = ReadState(fileAtStart)
        /\ \A i \in DOMAIN enriched :
              /\ enriched[i].blockNumber > checkpoint
              /\ \E j \in DOMAIN swaps : swaps[j].txHash = enriched[i].txHash

\* a run is about to write two rows: one for two swaps of a pair, with total
\* 6000 and average 3000, and one for a single swap
C17_Witness ==
    /\ pc = "Writing"
    /\ Len(newSwaps) = 3
    /\ Len(enriched) = 3
    /\ Len(summary) = 2
    /\ summary[1].count = 2
    /\ summary[1].totalUSD = 6000
    /\ summary[1].avgUSD = <<3000, 1>>
    /\ summary[2].count = 1

\* the orders in which the sequence s can be arranged
Arrangements(s) ==
    {[i \in DOMAIN s |-> s[f[i]]] :
        f \in {g \in [DOMAIN s -> DOMAIN s] :
                  \A i, j \in DOMAIN s : g[i] = g[j] => i = j}}

\* C18 (summary order): the summary rows are in descending order of totalUSD,
\* rows of equal totalUSD in ascending order of pair identifier, and the
\* summary is the same for every order of the run's enriched swaps.
C18_SummaryOrder ==
    SummaryDone =>
        /\ \A i \in 1..(Len(summary) - 1) :
              \/ summary[i].totalUSD > summary[i + 1].totalUSD
              \/ /\ summary[i].totalUSD = summary[i + 1].totalUSD
                 /\ PairKeyLess(summary[i].pair, summary[i + 1].pair)
        /\ \A other \in Arrangements(enriched) : Summarize(other) = summary

\* three rows: the largest total for the swap fetched last, then two rows of
\* equal total, of which the one fetched later comes first
C18_Witness ==
    /\ pc = "Writing"
    /\ Len(enriched) = 3
    /\ Len(summary) = 3
    /\ summary[1].pair = enriched[3].pair
    /\ summary[2].totalUSD = summary[3].totalUSD
    /\ summary[2].pair = enriched[2].pair
    /\ summary[3].pair = enriched[1].pair

\* C19 (pair identifier): two swaps of the same two tokens have the same pair
\* identifier whichever of the tokens each lists as token0, and so fall in
\* the same summary row.
C19_PairKeyOrderIndependent ==
    /\ \A i, j \in DOMAIN enriched :
          {enriched[i].token0, enriched[i].token1}
                = {enriched[j].token0, enriched[j].token1}
             => enriched[i].pair = enriched[j].pair
    /\ SummaryDone =>
          \A i, j \in DOMAIN summary :
             {summary[i].pair[1], summary[i].pair[2]}
                   = {summary[j].pair[1], summary[j].pair[2]} => i = j

\* ------------------------------------------------- state store properties
\* C20 (reading the checkpoint): no run fails on reading its checkpoint; a run
\* that finds no state file, or one that does not parse, leaves Loading for
\* Fetching with last_processed_block 0 unless its configuration is invalid.
C20_ReadCheckpointNeverFails ==
    /\ errorCause # "state"
    /\ (pc \in {"Fetching", "Filtering"} /\ fileAtStart.kind # "valid")
          => checkpoint = 0

\* C21: a write of the checkpoint is atomic. At every point of a write, a crash
\* between its steps included, state.json holds either the complete checkpoint
\* it held when the write began or the complete new one, and that is what
\* every reader found: never an empty or partly written file.
C21_AtomicWrite ==
    /\ stateFile \in {ssBefore, WriteState(ssBlock)}
    /\ Readable(stateFile)
    /\ \A i \in DOMAIN ssSeen :
          /\ ssSeen[i].saw \in {ssSeen[i].old, WriteState(ssSeen[i].new)}
          /\ Readable(ssSeen[i].saw)

\* a write of block 2 over the checkpoint of block 1 crashed before the rename,
\* a reader found block 1 during it, and a later write completed
C21_Witness ==
    /\ ssPc = "idle"
    /\ stateFile = ValidState(2)
    /\ ssTemp = NoState
    /\ Len(ssSeen) = 2
    /\ ssSeen[1] = [saw |-> ValidState(1), old |-> ValidState(1), new |-> 2]
    /\ ssSeen[2] = [saw |-> ValidState(2), old |-> ValidState(1), new |-> 2]

\* ------------------------------------------------ propagation of failures
\* C22: a run reaches Aborted only through a failure of Fetching or of Writing;
\* no other failure condition (a price that does not resolve, a malformed
\* record, an unreadable checkpoint) aborts it. Checked on runs whose
\* configuration validates.
C22_OnlyFetchAndWriteAbort ==
    pc = "Aborted" => errorStage \in {"Fetching", "Writing"}

\* C23: every run terminates. Each network call returning or failing, a run
\* started from Idle reaches Done or Aborted, the fetch being invoked at most
\* MaxAttempts times, and no step of the run leaves Done or Aborted.
C23_RunTerminates ==
    /\ (pc = "Idle") ~> (pc \in {"Done", "Aborted"})
    /\ [][(pc \in {"Done", "Aborted"}) => (pc' = pc)]_vars
    /\ [](rtAttempt <= MaxAttempts)

\* a run whose fetch failed twice and then returned, and that wrote its
\* checkpoint
C23_Witness ==
    /\ pc = "Done"
    /\ rtAttempt = MaxAttempts
    /\ Len(rtSlept) = MaxAttempts - 1
    /\ rtPhase = "returned"
    /\ cpWrites = 1
\* C24: after connect(), real data before the 10 s have elapsed cancels the
\* timer and there is never a fallback; with no real data by then the manager
\* is in mock mode, has called onFallbackToMock exactly once and has started
\* the mock client; onFallbackToMock is never called twice.
C24_MockFallback ==
    /\ cmFallbacks <= 1
    /\ (cmFirstData # -1 /\ cmFirstData < FallbackAfter) =>
          (cmFallbacks = 0 /\ cmTimerLeft = -1 /\ ~cmUsingMock /\ ~stFake)
    /\ ( /\ cmPhase = "started"
         /\ cmSinceStart >= FallbackAfter
         /\ cmTimerLeft # 0
         /\ cmFirstData = -1 \/ cmFirstData > FallbackAfter ) =>
          /\ cmFallbacks = 1
          /\ stFake
          /\ cmFirstData = -1 =>
                (cmUsingMock /\ cmMock /\ (mkPending \/ mkStatus = "connected"))

C24_Witness ==
    /\ cmPhase = "started"
    /\ cmSinceStart = FallbackAfter
    /\ cmFirstData = -1
    /\ cmFallbacks = 1
    /\ cmUsingMock
    /\ mkStatus = "connected"
    /\ stSource = "mock"
    /\ hlStatus = "connected"
\* C25: real market data received in mock mode ends mock mode and drops the
\* disconnected mock client, and once that has happened nothing the mock
\* client emits (data, status, its final 'disconnected') reaches the
\* callbacks: the data shown stays the real data.
C25_SwitchBack ==
    /\ [](cmSwitched => (~cmUsingMock /\ ~cmMock /\ ~cmMockAfter /\ stSource = "real"))
    /\ [][(cmUsingMock /\ stSource' = "real") =>
             (~cmUsingMock' /\ cmSwitched' /\ ~cmMock' /\ ~mkInterval'
                /\ mkStatus' = "disconnected" /\ stStatus' = stStatus)]_vars

C25_Witness ==
    /\ cmSwitched
    /\ cmPhase = "started"
    /\ mkStatus = "connected"
    /\ mkInterval
    /\ stSource = "real"
    /\ stStatus = "connecting"
\* C26: whenever the status is 'connected', the badge reads 'FAKE DATA MODE'
\* exactly when the manager is using mock data, and 'Connected' when it is
\* using real data.
C26_BadgeReflectsSource ==
    stStatus = "connected" =>
        /\ (BadgeText = "FAKE DATA MODE") <=> cmUsingMock
        /\ ~cmUsingMock => BadgeText = "Connected"
\* C27: the delay before a reconnect starts at 1 s for the first attempt after
\* a connection and doubles with every further failed attempt, for the
\* generic client and (as the base its jitter is added to) for the
\* Hyperliquid client, and no reconnect delay is ever longer than 30 s.
C27_ReconnectBackoff ==
    /\ WsCalculateReconnectDelay(0) = 1000
    /\ \A k \in 0..MaxReconnects :
          /\ WsCalculateReconnectDelay(k + 1) = Min(2 * WsCalculateReconnectDelay(k), 30000)
          /\ WsCalculateReconnectDelay(k) <= 30000
    /\ hlReconnectLeft # -1 =>
          /\ hlDelay >= WsCalculateReconnectDelay(hlDelayAttempts)
          /\ hlDelayAttempts < 5 => hlDelay < WsCalculateReconnectDelay(hlDelayAttempts + 1)
          /\ hlDelay <= 30000
\* C28: while the socket is open a heartbeat check is pending, at most 30 s
\* away; a check closes the socket when no message has been received for
\* more than 60 s and only then (60 whole seconds counted and the check some
\* milliseconds late, or more); when the socket so closed has closed the
\* client and the store report 'disconnected' and a reconnect is scheduled;
\* no heartbeat is left running once the socket has closed or disconnect()
\* has been called.
C28_Heartbeat ==
    /\ [](hlWs = "open" => hlHeartbeatLeft \in 0..30)
    /\ [](hlWs = "none" \/ cmPhase = "stopped" => hlHeartbeatLeft = -1)
    /\ [][(hlHeartbeatLeft = 0 /\ hlHeartbeatLeft' = 30 /\ hlWs = "open") =>
             /\ hlSinceMessage > 60 => hlWs' = "closing"
             /\ hlSinceMessage < 60 => hlWs' = "open"
             /\ hlWs' \in {"open", "closing"}]_vars
    /\ [][(hlClosedBy' = "heartbeat" /\ hlClosedBy # "heartbeat") =>
             (hlWs = "open" /\ hlWs' = "closing" /\ hlSinceMessage >= 60)]_vars
    /\ [][(hlClosedBy = "heartbeat" /\ hlWs \in {"closing", "errored"} /\ hlWs' = "none") =>
             /\ hlStatus' = "disconnected"
             /\ stStatus' = "disconnected"
             /\ hlReconnectLeft' > 0
             /\ hlHeartbeatLeft' = -1]_vars

C28_Witness ==
    /\ hlClosedBy = "heartbeat"
    /\ hlWs = "none"
    /\ hlStatus = "disconnected"
    /\ hlReconnectLeft > 0
    /\ hlHeartbeatLeft = -1
    /\ hlAttempts = 1
\* C29 as stated: the result is all zero when entryPrice <= 0, currentPrice
\* <= 0, leverage <= 0, size = 0 or an argument is not finite; otherwise
\* absolute is exactly (currentPrice - entryPrice) * |size| * leverage for
\* 'long' and its negation for 'short', and percentage is exactly
\* absolute / (entryPrice * |size|) * 100.
C29_PnLExact ==
    pnlDone =>
        LET a == pnlArgs
            zeroCase ==
                \/ \E x \in {a.entryPrice, a.currentPrice, a.size, a.leverage} :
                       x.kind # "finite"
                \/ a.entryPrice.v <= 0
                \/ a.currentPrice.v <= 0
                \/ a.leverage.v <= 0
                \/ a.size.v = 0
            long == (a.currentPrice.v - a.entryPrice.v) * Abs(a.size.v) * a.leverage.v
            expected == IF a.side = "long" THEN long ELSE 0 - long
        IN IF zeroCase
           THEN pnlResult = ZeroResult
           ELSE /\ 8 * pnlResult.absolute = 100 * expected
                /\ pnlResult.percentage * (a.entryPrice.v * Abs(a.size.v)) =
                      100 * 100 * expected

\* r hundredths is num / den rounded to two decimals, halves away from zero
IsRounded2(r, num, den) ==
    LET e == Abs(100 * num - r * den)
    IN 2 * e < den \/ (2 * e = den /\ Abs(r * den) > Abs(100 * num))

\* r hundredths is num / den rounded to two decimals, a half going either
\* way: no hundredth is nearer
IsNearest2(r, num, den) == 2 * Abs(100 * num - r * den) <= den

\* C29 (amended): the zero cases as stated; otherwise absolute is
\* (currentPrice - entryPrice) * |size| * leverage rounded to two decimals for
\* 'long' and the negation of that for 'short', and percentage is the
\* unrounded absolute / (entryPrice * |size|) * 100 rounded to two decimals
\* (a value halfway between two hundredths going to either, as the double
\* computed for it falls).
C29_PnLRounded ==
    pnlDone =>
        LET a == pnlArgs
            zeroCase ==
                \/ \E x \in {a.entryPrice, a.currentPrice, a.size, a.leverage} :
                       x.kind # "finite"
                \/ a.entryPrice.v <= 0
                \/ a.currentPrice.v <= 0
                \/ a.leverage.v <= 0
                \/ a.size.v = 0
            long == (a.currentPrice.v - a.entryPrice.v) * Abs(a.size.v) * a.leverage.v
            sign == IF a.side = "long" THEN 1 ELSE -1
        IN IF zeroCase
           THEN pnlResult = ZeroResult
           ELSE /\ IsRounded2(sign * pnlResult.absolute, long, 8)
                /\ IsNearest2(sign * pnlResult.percentage, 100 * long,
                               a.entryPrice.v * Abs(a.size.v))

C29_Witness ==
    /\ pnlDone
    /\ pnlArgs = [entryPrice |-> Finite(400), currentPrice |-> Finite(401),
                   size |-> Finite(-1), side |-> "short", leverage |-> Finite(1)]
    /\ pnlResult = [absolute |-> -13, percentage |-> -25, entryValue |-> 5000,
                     currentValue |-> 5013]
\* C30: whatever the store is updated with from outside, the render/effect
\* cycle of the AgentTable comes to rest: whenever a render, an effect or a
\* timeout is due, a state follows in which none is.
C30_NoUpdateLoop == (~AtQuiescent) ~> AtQuiescent

\* C31: no request is sent to the price oracle without an acquire() of the
\* RateLimiter that returned for it (each acquire() is followed by exactly
\* one request), no fallback lookup is sent for a token of the static table,
\* and no acquire() is made for the subgraph fetch.
C31_OracleBehindLimiter ==
    /\ Len(rlArrivals) = Len(orFor)
    /\ Cardinality({i \in DOMAIN rlGrants : rlGrants[i] # <<>>}) =
          orSent + (IF orPc \in {"lookup", "price"} THEN 1 ELSE 0)
    /\ rlCalls # {} => orPc \in {"acquireLookup", "acquirePrice"}
    /\ orLookedUp \cap StaticTokens = {}
    /\ (orPc = "fetch" \/ (orPc = "pick" /\ orSent = 0)) => rlArrivals = <<>>

C31_Witness ==
    /\ orPc = "done"
    /\ orPriced = {"WETH", "UNI"}
    /\ orLookedUp = {"UNI"}
    /\ orSent = 4
    /\ Len(rlGrants) = 4
    /\ \E i \in DOMAIN rlGrants : rlGrants[i] # <<rlArrivals[i]>>

\* C32: once disconnect() has been called on the generic client or on the
\* Hyperliquid client, no reconnect timeout is pending and the client has no
\* socket that is connecting or open, whatever error and close events and
\* timeouts were outstanding when it was called.
C32_NoReconnectAfterDisconnect ==
    /\ wsIntentional => (~wsTimer /\ wsSock \in {"none", "closing", "errored"})
    /\ hlIntentional => (hlReconnectLeft = -1 /\ hlWs \in {"none", "closing", "errored"})

C32_Witness ==
    /\ wsIntentional
    /\ wsSock = "none"
    /\ wsAttempts = 2
    /\ wsStatus = "disconnected"

\* C33: a call updateMarketData(data) stores data under data.symbol with
\* priceDirection 'up', 'down' or 'neutral' as data.price is greater than,
\* less than or equal to the price stored before for the symbol, 'neutral'
\* when the symbol had no entry, and changes neither the entry of another
\* symbol nor another field of the store.
C33_UpdateMarketDataFrame ==
    [][(mdCalls' # mdCalls) =>
        (LET d == mdData'
             old == stMarket[d.symbol]
             direction ==
                 IF ~old.has THEN "neutral"
                 ELSE IF d.price > old.price THEN "up"
                 ELSE IF d.price < old.price THEN "down"
                 ELSE "neutral"
         IN /\ stMarket'[d.symbol] =
                   [has |-> TRUE, symbol |-> d.symbol, price |-> d.price,
                    bid |-> d.bid, ask |-> d.ask, priceDirection |-> direction]
            /\ \A s \in StoreSymbols \ {d.symbol} : stMarket'[s] = stMarket[s]
            /\ UNCHANGED <<stStatus, stReconnect, stFake, stError, atVars>>)]_vars

C33_Witness ==
    /\ mdCalls = 3
    /\ stMarket["BTC-USD"].price = 99
    /\ stMarket["BTC-USD"].priceDirection = "down"
    /\ stMarket["ETH-USD"].price = 100
    /\ stMarket["ETH-USD"].priceDirection = "neutral"
    /\ stStatus = "disconnected"
    /\ stFake

\* C34: every MarketData the Hyperliquid client emits has its bid and ask
\* estimated from its own price, bid = price * 0.9995 and ask = price * 1.0005,
\* hence bid <= price <= ask, for every message of a sequence of updates.
C34_BidAskFromOwnPrice ==
    (mdFrom = "real") =>
        /\ mdData.bid = mdData.price * BidFactor
        /\ mdData.ask = mdData.price * AskFactor
        /\ mdData.bid <= mdData.price * PriceScale
        /\ mdData.price * PriceScale <= mdData.ask

\* C35: the statistics of a run at Done are consistent: the enriched count
\* plus the skipped count is the number of records of the filtered batch,
\* the counts of the summary rows add up to the enriched count, and the
\* fetched count is the number of raw payloads the fetch returned.
C35_StatisticsConsistent ==
    (pc = "Done" /\ ~exited) =>
        /\ RunStatistics.enriched + RunStatistics.skipped = Len(newSwaps)
        /\ SumCounts(summary) = RunStatistics.enriched
        /\ fetched => RunStatistics.fetched = Len(upstream)

C35_Witness ==
    /\ pc = "Done"
    /\ ~exited
    /\ RunStatistics.fetched = 2
    /\ RunStatistics.enriched = 1
    /\ RunStatistics.skipped = 1
    /\ Len(summary) = 1
    /\ summary[1].count = 1
    /\ \E i \in DOMAIN newSwaps : ~Resolved(newSwaps[i], prices)

\* C36: after a run that performed the checkpoint update the persisted block
\* is at least the blockNumber of every record of the filtered batch, the
\* records skipped for a missing price included; and a swap that a run which
\* updated the checkpoint skipped is in no later run's filtered batch, hence
\* neither enriched nor written by it.
C36_SkippedStaysBehindCheckpoint ==
    /\ (pc = "Done" /\ ~exited /\ cpWrites > 0) =>
           \A r \in Range(newSwaps) : r.blockNumber <= ReadState(stateFile)
    /\ \A r \in Range(newSwaps) \cup Range(enriched) : r.txHash \notin skippedEarlier

\* a second run, fetching again a swap the first run skipped and committed,
\* processed a newer swap
C36_Witness ==
    /\ run = 2
    /\ pc = "Done"
    /\ ~exited
    /\ skippedEarlier # {}
    /\ \E r \in Range(swaps) : r.txHash \in skippedEarlier
    /\ Len(enriched) = 1
    /\ cpWrites = 1

\* C37: only connect() arms the fallback timeout: once real market data have
\* been received no timeout is pending and the manager does not enter mock
\* mode, however long the real feed is then silent or disconnected.
C37_FallbackArmedByConnectOnly ==
    [][cmLastSuccess => (cmTimerLeft' = -1 /\ (cmUsingMock' => cmUsingMock))]_vars

\* data in the first second, then a closed socket and silence until 12 s
\* after connect(): no fallback
C37_Witness ==
    /\ cmPhase = "started"
    /\ cmFirstData = 1
    /\ cmSinceStart = MaxSeconds
    /\ hlWs = "none"
    /\ hlStatus = "disconnected"
    /\ cmFallbacks = 0
    /\ ~cmUsingMock
    /\ stSource = "real"

\* C38: while the manager is in mock mode every status handed to
\* onStatusChange is the mock client's: a step in mock mode that changes the
\* status shown changes it to the status of the mock client, never to one of
\* the real client reconnecting in the background.
C38_MockModeStatusFromMock ==
    [][(cmUsingMock /\ cmUsingMock' /\ stStatus' # stStatus) =>
          (stStatus' = mkStatus' /\ hlStatus' = hlStatus)]_vars
====
